---- MODULE Spec2Model ----
(***************************************************************************)
(* Model of the factory-operations data engines:                           *)
(*   - aggregate_batches_to_production (shared/data.py), the batch-to-     *)
(*     rollup aggregation;                                                 *)
(*   - the traceability queries of backend/src/api/routes/traceability.py  *)
(*     and docs/traceability_examples.py;                                  *)
(*   - the metrics reducers of shared/metrics.py;                          *)
(*   - generate_material_lots and generate_production_batches              *)
(*     (shared/data_generator.py).                                         *)
(*                                                                         *)
(* Conventions.  Hours are fixed-point integers counted in micro-hours     *)
(* (Hour = 10^6), so that a duration with three decimals and its product   *)
(* with a random fraction given in percent are exact.  The values the     *)
(* code rounds with round(x, 2) are counted in hundredths.  Dates are      *)
(* "YYYY-MM-DD" strings compared lexicographically by the code; they are   *)
(* day numbers here, compared with <=.                                     *)
(***************************************************************************)
EXTENDS Integers, Sequences, FiniteSets, TLC

VARIABLES
    production_batches,       \* argument of aggregate_batches_to_production
    rng,                      \* hidden state of the module-level `random` generator
    pc,                       \* position of the aggregation call
    idx,                      \* index of the grouping loop (data.py:308)
    batches_by_date_machine,  \* the nested grouping dict, in insertion order
    gidx,                     \* index of the aggregation loop (data.py:323-324)
    production,               \* production[date][machine] built so far / returned
    raised,                   \* exception that left the call, "none" otherwise
    earlier,                  \* what an earlier call with the same arguments returned
    data,                     \* the snapshot load_data_async returns to a query
    response,                 \* what the last query gave its caller
    previous,                 \* what the same query gave when first called
    result,                   \* what the last metrics reducer gave its caller
    gpc,                      \* position of the generator
    num_lots,                 \* passes left of the loop generating the lots
    lot_counter,              \* data_generator.py:278
    gen_lots,                 \* the lots generated so far
    production_data,          \* production[date][machine] the generator reads
    gen_orders,               \* the orders given to the generator
    slot,                     \* the shift the loops of the generator are at
    order_index,              \* data_generator.py:643
    serial_counter,           \* data_generator.py:646
    gen_batches,              \* the batches generated so far
    trace,                    \* what trace_forward_from_supplier gave the scorecard
    storage_mode,             \* STORAGE_MODE.lower(), data.py:148
    stored,                   \* content of the data file or of the blob
    lpc,                      \* position of each load_data_async call
    exists,                   \* what each call saw: path.exists() / blob_exists()
    loaded,                   \* `data` of each call, and what it returned
    memory_blob,              \* the MemoryStore persisted in the memory blob
    now,                      \* datetime.now(), in whole seconds
    mpc,                      \* position of each memory-service call
    memory,                   \* `memory` of each call (memory_service.py:154, 179, 246)
    made                      \* what each call was asked to create or apply

aggVars == <<production_batches, rng, pc, idx, batches_by_date_machine, gidx,
             production, raised, earlier>>

traceVars == <<data, response, previous>>

metricsVars == <<result>>

genVars == <<gpc, num_lots, lot_counter, gen_lots, production_data,
             gen_orders, slot, order_index, serial_counter, gen_batches>>

loadVars == <<storage_mode, stored, lpc, exists, loaded>>

memVars == <<memory_blob, now, mpc, memory, made>>

svcVars == <<trace, loadVars, memVars>>

vars == <<aggVars, traceVars, metricsVars, genVars, svcVars>>

-----------------------------------------------------------------------------
(* Bounds of the model *)

MaxBatches == 2

\* The generator is seeded with one of the states 0..MaxSeed.
MaxSeed == 5

\* Longest production_batches list of a snapshot.
MaxTraceBatches == 2

\* Most passes of the loop of generate_material_lots.
MaxLots == 2

\* Most quality issues of a supplier's forward trace.
MaxIssues == 2

\* Number of concurrent load_data_async calls.
MaxCalls == 3

\* Number of concurrent calls of the memory service.
MaxWriters == 2

\* The seconds the clock passes through while they run.
MaxClock == 1

-----------------------------------------------------------------------------
(* Units and program constants *)

Hour == 10^6
Centi == Hour \div 100

planned_hours == 16 * Hour
shift_planned == 8 * Hour
FallbackHours == 3 * Hour

ShiftNames == <<"Day", "Night">>
MachineNames == {"CNC-001", "Assembly-001"}
Dates == {1, 2}

DowntimeReasonKeys ==
    <<"mechanical", "electrical", "material", "changeover", "maintenance">>

\* "$50 per defect estimate"
CostPerDefect == 50

\* affected_batches[:10], quality_issues[:10] of the impact analysis
ResponseLimit == 10

-----------------------------------------------------------------------------
(* The `random` module.  Every draw is a function of the generator state   *)
(* and advances it.  The states form a cycle on which the three kinds of   *)
(* draw (randint(1, 2), choice over the 5 reasons, uniform(0.3, 0.7)       *)
(* sampled at three fractions, in percent) take every combination.         *)

UniformSamples == <<30, 50, 62>>

RngStates == 2 * Len(DowntimeReasonKeys) * Len(UniformSamples)

NextRng(s) == (s + 7) % RngStates

RandInt12(s) == 1 + (s % 2)

RandChoice(s) == DowntimeReasonKeys[1 + (s % Len(DowntimeReasonKeys))]

RandUniform(s) == UniformSamples[1 + (s % Len(UniformSamples))]

-----------------------------------------------------------------------------
(* round(x, 2).  x is a fixed-point value counted in units of 1/unit       *)
(* hundredths.  A decimal tie (x.xx5) is not a tie of the binary float:    *)
(* the float lies on either side of it, so either neighbour can be the     *)
(* result (round(2.145, 2) = 2.15, round(1.005, 2) = 1.0).  tieUp is the   *)
(* side the float of this value lies on.  Away from a tie the result is    *)
(* the nearest hundredth.                                                  *)

IsTie(x, unit) == 2 * (x % unit) = unit

TieChoices(x, unit) == IF IsTie(x, unit) THEN {TRUE, FALSE} ELSE {FALSE}

Round2(x, unit, tieUp) ==
    LET q == x \div unit
        r == x % unit
    IN  IF 2 * r > unit THEN q + 1
        ELSE IF 2 * r < unit THEN q
        ELSE IF tieUp THEN q + 1 ELSE q

Max(a, b) == IF a >= b THEN a ELSE b

-----------------------------------------------------------------------------
(* Input batches.  kind: a pydantic ProductionBatch ("model"), a dict, or  *)
(* any other object.  missing: the keys a dict lacks.  durKind: key        *)
(* duration_hours absent, present with None, or present with a number.     *)

BaseBatch ==
    [kind |-> "dict", missing |-> {}, batch_id |-> 0,
     date |-> 1, machine_name |-> "CNC-001", shift_name |-> "Day",
     parts_produced |-> 100, good_parts |-> 95, scrap_parts |-> 5,
     quality_issues |-> <<>>,
     durKind |-> "num", duration_hours |-> 3500000]

OneIssue ==
    [type |-> "dimensional", description |-> "Out of tolerance",
     parts_affected |-> 3, severity |-> "High"]

BatchPool ==
    { BaseBatch,
      [BaseBatch EXCEPT !.kind = "model"],
      [BaseBatch EXCEPT !.date = 2],
      [BaseBatch EXCEPT !.machine_name = "Assembly-001"],
      [BaseBatch EXCEPT !.shift_name = "Night"],
      [BaseBatch EXCEPT !.shift_name = "Swing"],
      [BaseBatch EXCEPT !.parts_produced = 120, !.good_parts = 117,
                        !.scrap_parts = 3],
      [BaseBatch EXCEPT !.parts_produced = 0, !.good_parts = 0,
                        !.scrap_parts = 0],
      [BaseBatch EXCEPT !.quality_issues = <<OneIssue>>],
      [BaseBatch EXCEPT !.durKind = "absent", !.duration_hours = 0],
      [BaseBatch EXCEPT !.kind = "model", !.durKind = "none",
                        !.duration_hours = 0],
      [BaseBatch EXCEPT !.duration_hours = 0],
      [BaseBatch EXCEPT !.duration_hours = 3006000],
      [BaseBatch EXCEPT !.duration_hours = 9000000],
      [BaseBatch EXCEPT !.kind = "other"],
      [BaseBatch EXCEPT !.missing = {"date"}],
      [BaseBatch EXCEPT !.missing = {"parts_produced"}] }

\* batch_id is unique: the batch at position i carries id i.
WithIds(s) == [i \in 1..Len(s) |-> [s[i] EXCEPT !.batch_id = i]]

BatchLists ==
    { WithIds(s) : s \in UNION { [1..n -> BatchPool] : n \in 0..MaxBatches } }

-----------------------------------------------------------------------------
(* Grouping loop, data.py:308-320 *)

IndexOfDate(bdm, d) ==
    IF \E i \in 1..Len(bdm) : bdm[i].date = d
    THEN CHOOSE i \in 1..Len(bdm) : bdm[i].date = d
    ELSE 0

IndexOfMachine(ms, m) ==
    IF \E i \in 1..Len(ms) : ms[i].machine_name = m
    THEN CHOOSE i \in 1..Len(ms) : ms[i].machine_name = m
    ELSE 0

\* batches_by_date_machine[date][machine_name].append(batch_dict) on the
\* nested defaultdict: a missing date or machine is inserted at the end.
AppendBatch(bdm, b) ==
    LET di   == IndexOfDate(bdm, b.date)
        bdm1 == IF di = 0
                THEN Append(bdm, [date |-> b.date, machines |-> <<>>])
                ELSE bdm
        d    == IF di = 0 THEN Len(bdm1) ELSE di
        ms   == bdm1[d].machines
        mi   == IndexOfMachine(ms, b.machine_name)
        ms1  == IF mi = 0
                THEN Append(ms, [machine_name |-> b.machine_name,
                                 batches |-> <<>>])
                ELSE ms
        m    == IF mi = 0 THEN Len(ms1) ELSE mi
    IN  [bdm1 EXCEPT ![d].machines =
            [ms1 EXCEPT ![m].batches = Append(@, b)]]

\* model_dump() of a pydantic batch, or the dict itself.
BatchDict(b) == [b EXCEPT !.kind = "dict"]

RECURSIVE FlattenGroups(_)
\* The (date, machine) groups in the order the nested loops visit them.
FlattenGroups(bdm) ==
    IF bdm = <<>> THEN <<>>
    ELSE LET h == Head(bdm)
         IN  [j \in 1..Len(h.machines) |->
                 [date |-> h.date,
                  machine_name |-> h.machines[j].machine_name,
                  batches |-> h.machines[j].batches]]
             \o FlattenGroups(Tail(bdm))

-----------------------------------------------------------------------------
(* Aggregation of one group, data.py:325-431 *)

RECURSIVE SumSeq(_)
SumSeq(s) == IF s = <<>> THEN 0 ELSE Head(s) + SumSeq(Tail(s))

\* total += F(batch) over the batches in order
SumOver(bs, F(_)) == SumSeq([i \in 1..Len(bs) |-> F(bs[i])])

\* data.py:364-369
BatchUptime(b) ==
    LET batch_duration == IF b.durKind = "absent" THEN 0 ELSE b.duration_hours
    IN  IF batch_duration > 0 THEN batch_duration ELSE FallbackHours

\* The exception one pass of the batch loop raises, in statement order:
\* batch["parts_produced"] ... batch["batch_id"] (349-352), None > 0 (365),
\* batch["shift_name"] (372).
BatchRaises(b) ==
    IF b.missing \cap {"parts_produced", "good_parts", "scrap_parts",
                       "batch_id"} # {} THEN "KeyError"
    ELSE IF b.durKind = "none" THEN "TypeError"
    ELSE IF "shift_name" \in b.missing THEN "KeyError"
    ELSE "none"

GroupRaises(bs) ==
    IF \E i \in 1..Len(bs) : BatchRaises(bs[i]) # "none"
    THEN BatchRaises(bs[CHOOSE i \in 1..Len(bs) :
                          /\ BatchRaises(bs[i]) # "none"
                          /\ \A j \in 1..(i - 1) : BatchRaises(bs[j]) = "none"])
    ELSE "none"

PartsOf(b) == b.parts_produced
GoodOf(b) == b.good_parts
ScrapOf(b) == b.scrap_parts

InShift(bs, name) == SelectSeq(bs, LAMBDA b : b.shift_name = name)

\* Variant (not the code): a shift without parts keeps the zeros of 338-344.
ShiftMetricsZeroFilled(bs) ==
    [name \in {ShiftNames[i] : i \in 1..Len(ShiftNames)} |->
        LET sb == InShift(bs, name)
            up == SumOver(sb, BatchUptime)
            idle == SumOver(sb, PartsOf) = 0
        IN  [parts_produced |-> SumOver(sb, PartsOf),
             good_parts     |-> SumOver(sb, GoodOf),
             scrap_parts    |-> SumOver(sb, ScrapOf),
             uptime_hours   |-> IF idle THEN 0 ELSE up,
             downtime_hours |-> IF idle THEN 0
                                ELSE Max(0, shift_planned - up)]]

\* data.py:334-344, 371-382, 391-395
ShiftMetrics(bs) ==
    [name \in {ShiftNames[i] : i \in 1..Len(ShiftNames)} |->
        LET sb == InShift(bs, name)
            up == SumOver(sb, BatchUptime)
        IN  [parts_produced |-> SumOver(sb, PartsOf),
             good_parts     |-> SumOver(sb, GoodOf),
             scrap_parts    |-> SumOver(sb, ScrapOf),
             uptime_hours   |-> up,
             downtime_hours |-> Max(0, shift_planned - up)]]

RECURSIVE ConcatIssues(_)
\* data.py:354-361
ConcatIssues(bs) ==
    IF bs = <<>> THEN <<>>
    ELSE Head(bs).quality_issues \o ConcatIssues(Tail(bs))

TotalUptime(bs) == SumOver(bs, BatchUptime)

\* Variant (not the code): one shift's planned hours stand for the day's.
TotalDowntimeOneShift(bs) == Max(0, shift_planned - TotalUptime(bs))

\* data.py:387-389
TotalDowntime(bs) == Max(0, planned_hours - TotalUptime(bs))

\* data.py:401
NumEvents(s, total_downtime) ==
    IF total_downtime > 0 THEN RandInt12(s) ELSE 0

\* data.py:410: remaining_hours * random.uniform(0.3, 0.7).  The hours are
\* multiples of 100 micro-hours, so dividing first loses nothing and keeps
\* the product within the integers of the checker.
FirstSplit(s, total_downtime) ==
    (total_downtime \div 100) * RandUniform(NextRng(NextRng(s)))

\* Variant (not the code): remaining_hours is not reduced by the first event.
DowntimeEventsNoSubtract(s, total_downtime, t1, t2) ==
    LET n  == NumEvents(s, total_downtime)
        s1 == NextRng(s)
        s3 == NextRng(NextRng(s1))
        e1 == FirstSplit(s, total_downtime)
    IN  IF n = 0 THEN <<>>
        ELSE IF n = 1
        THEN << [reason |-> RandChoice(s1),
                 duration_hours |-> Round2(total_downtime, Centi, t1)] >>
        ELSE << [reason |-> RandChoice(s1),
                 duration_hours |-> Round2(e1, Centi, t1)],
                [reason |-> RandChoice(s3),
                 duration_hours |-> Round2(total_downtime, Centi, t2)] >>

\* data.py:397-417.  t1, t2: the sides of the ties of the event hours.
DowntimeEvents(s, total_downtime, t1, t2) ==
    LET n  == NumEvents(s, total_downtime)
        s1 == NextRng(s)
        s3 == NextRng(NextRng(s1))
        e1 == FirstSplit(s, total_downtime)
    IN  IF n = 0 THEN <<>>
        ELSE IF n = 1
        THEN << [reason |-> RandChoice(s1),
                 duration_hours |-> Round2(total_downtime, Centi, t1)] >>
        ELSE << [reason |-> RandChoice(s1),
                 duration_hours |-> Round2(e1, Centi, t1)],
                [reason |-> RandChoice(s3),
                 duration_hours |-> Round2(total_downtime - e1, Centi, t2)] >>

\* The generator state after the draws of one group.
RngAfter(s, total_downtime) ==
    LET n == NumEvents(s, total_downtime)
    IN  IF n = 0 THEN s
        ELSE IF n = 1 THEN NextRng(NextRng(s))
        ELSE NextRng(NextRng(NextRng(NextRng(s))))

\* Variant (not the code): the rate is truncated, not rounded.
ScrapRateTruncated(total_scrap, total_parts, tieUp) ==
    IF total_parts > 0 THEN (total_scrap * 10000) \div total_parts ELSE 0

\* data.py:385, 424: round(total_scrap / total_parts * 100, 2), in hundredths
\* of a percent.
ScrapRate(total_scrap, total_parts, tieUp) ==
    IF total_parts > 0
    THEN Round2(total_scrap * 10000, total_parts, tieUp)
    ELSE 0

\* Variant (not the code): the ids are collected newest first.
BatchIdOfReversed(bs) == [i \in 1..Len(bs) |-> bs[Len(bs) + 1 - i].batch_id]

\* data.py:332, 352: batch_ids.append(batch["batch_id"])
BatchIdOf(bs) == [i \in 1..Len(bs) |-> bs[i].batch_id]

\* Variant (not the code): downtime_hours is added up from the events.
RollupRecordEventTotal(bs, s, tUp, tDown, t1, t2, tRate) ==
    LET total_parts    == SumOver(bs, PartsOf)
        total_scrap    == SumOver(bs, ScrapOf)
        total_downtime == TotalDowntime(bs)
        n              == NumEvents(s, total_downtime)
        events         == DowntimeEvents(s, total_downtime,
                                         IF n = 1 THEN tDown ELSE t1, t2)
    IN  [parts_produced  |-> total_parts,
         good_parts      |-> SumOver(bs, GoodOf),
         scrap_parts     |-> total_scrap,
         scrap_rate      |-> ScrapRate(total_scrap, total_parts, tRate),
         uptime_hours    |-> Round2(TotalUptime(bs), Centi, tUp),
         downtime_hours  |->
             SumSeq([i \in 1..Len(events) |-> events[i].duration_hours]),
         downtime_events |-> events,
         quality_issues  |-> ConcatIssues(bs),
         shifts          |-> ShiftMetrics(bs),
         batches         |-> BatchIdOf(bs)]

\* data.py:420-431
RollupRecord(bs, s, tUp, tDown, t1, t2, tRate) ==
    LET total_parts    == SumOver(bs, PartsOf)
        total_scrap    == SumOver(bs, ScrapOf)
        total_downtime == TotalDowntime(bs)
        n              == NumEvents(s, total_downtime)
    IN  [parts_produced  |-> total_parts,
         good_parts      |-> SumOver(bs, GoodOf),
         scrap_parts     |-> total_scrap,
         scrap_rate      |-> ScrapRate(total_scrap, total_parts, tRate),
         uptime_hours    |-> Round2(TotalUptime(bs), Centi, tUp),
         downtime_hours  |-> Round2(total_downtime, Centi, tDown),
         downtime_events |->
             \* a single event rounds the very float downtime_hours rounds
             DowntimeEvents(s, total_downtime,
                            IF n = 1 THEN tDown ELSE t1, t2),
         quality_issues  |-> ConcatIssues(bs),
         shifts          |-> ShiftMetrics(bs),
         batches         |-> BatchIdOf(bs)]

-----------------------------------------------------------------------------
(* Snapshots read by the traceability queries.  An absent optional value   *)
(* (Python None) is the string "None" for an id and day 0 for a date.      *)

None == "None"
NoDate == 0

\* machine_id: Optional[int] = None of list_batches
NoMachine == 0

Usage(m, l) == [material_id |-> m, lot_number |-> l]

TraceBase ==
    [batch_id |-> 0, date |-> 2, machine_id |-> 1, machine_name |-> "CNC-001",
     parts_produced |-> 100, good_parts |-> 98, scrap_parts |-> 2,
     order_id |-> "ORD-1", serial_start |-> 0, serial_end |-> 0,
     materials_consumed |-> <<Usage("MAT-001", "LOT-1")>>]

\* LOT-3 and MAT-009 are in no snapshot: usages of them dangle.
TracePool ==
    { TraceBase,
      [TraceBase EXCEPT !.date = 3],
      [TraceBase EXCEPT !.good_parts = 100, !.scrap_parts = 0],
      [TraceBase EXCEPT !.order_id = None, !.machine_id = 2,
                        !.machine_name = "Assembly-001"],
      [TraceBase EXCEPT !.materials_consumed = <<>>],
      [TraceBase EXCEPT !.materials_consumed =
                            <<Usage("MAT-001", "LOT-1"),
                              Usage("MAT-001", "LOT-2")>>],
      [TraceBase EXCEPT !.materials_consumed = <<Usage("MAT-001", "LOT-3")>>],
      [TraceBase EXCEPT !.materials_consumed = <<Usage("MAT-009", "LOT-2")>>] }

\* batch_id is unique and the serial ranges are disjoint: the batch at
\* position i has id i and the serials 1000 i .. 1000 i + parts_produced - 1.
WithTraceIds(s) ==
    [i \in 1..Len(s) |->
        [s[i] EXCEPT !.batch_id = i,
                     !.serial_start = 1000 * i,
                     !.serial_end = 1000 * i + s[i].parts_produced - 1]]

TraceBatchLists ==
    { WithTraceIds(s) :
        s \in UNION { [1..n -> TracePool] : n \in 0..MaxTraceBatches } }

\* SUP-003 is in no snapshot: a lot of SUP-003 has a dangling supplier_id.
LotLists ==
    { << [lot_number |-> "LOT-1", material_id |-> "MAT-001",
          supplier_id |-> "SUP-001", received_date |-> r1],
         [lot_number |-> "LOT-2", material_id |-> "MAT-001",
          supplier_id |-> s2, received_date |-> 2] >> :
        r1 \in {1, 2}, s2 \in {"SUP-001", "SUP-002", "SUP-003"} }

Snapshots ==
    { [loaded |-> TRUE,
       suppliers |-> << [id |-> "SUP-001", name |-> "Acme Steel Co.",
                         status |-> "Active", quality_rating |-> 85],
                        [id |-> "SUP-002", name |-> "Precision Fasteners",
                         status |-> "OnHold", quality_rating |-> 92] >>,
       materials_catalog |-> << [id |-> "MAT-001"] >>,
       material_lots |-> lots,
       production_batches |-> bs,
       orders |-> << [id |-> "ORD-1", status |-> "InProgress",
                      due_date |-> 5],
                     [id |-> "ORD-2", status |-> "Pending",
                      due_date |-> 4] >>,
       quality_issues |-> << [issue_id |-> "QI-1", severity |-> "High",
                              batch_id |-> 1, affected_serials |-> {1005},
                              suspected_lots |-> {"LOT-1"}] >>] :
        lots \in LotLists, bs \in TraceBatchLists }

\* load_data_async() returned None: nothing is stored yet.
NoData ==
    [loaded |-> FALSE, suppliers |-> <<>>, materials_catalog |-> <<>>,
     material_lots |-> <<>>, production_batches |-> <<>>, orders |-> <<>>,
     quality_issues |-> <<>>]

QuerySupplierIds == {"SUP-001", "SUP-002", "SUP-999"}
QueryBatchIds == 1..(MaxTraceBatches + 1)
QueryOrderIds == {"ORD-1", "ORD-404"}
QueryLotNumbers == {"LOT-1", "LOT-2", "LOT-3"}
QuerySerials == {999, 1000, 1099, 1100, 2050}
QueryDates == {NoDate, 2, 3}
QueryStatuses == {None, "Active", "Pending"}
ListLimits == {1, 50}
ListBatchFilters ==
    [machine_id : {NoMachine, 1}, order_id : {None, "ORD-1"},
     limit : ListLimits]
ListBatchDates == {<<NoDate, NoDate>>, <<3, NoDate>>, <<NoDate, 2>>}

-----------------------------------------------------------------------------
(* What a query gives its caller: status "ok" with a body, or "not_found"  *)
(* (HTTPException 404 of the routes, ValueError "... not found" of the     *)
(* examples) with the detail of the error.                                 *)

NoResponse ==
    [op |-> "none", key |-> None, start_date |-> NoDate, end_date |-> NoDate,
     status |-> "none", detail |-> "none", body |-> <<>>]

Ok(op, key, start, end, body) ==
    [op |-> op, key |-> key, start_date |-> start, end_date |-> end,
     status |-> "ok", detail |-> "none", body |-> body]

\* detail: "key" when the message names the key, "no_data" for
\* "No data available".
NotFound(op, key, start, end, detail) ==
    [op |-> op, key |-> key, start_date |-> start, end_date |-> end,
     status |-> "not_found", detail |-> detail, body |-> <<>>]

\* next((x for x in seq if P(x)), None): the first position, 0 for None.
FirstIndex(seq, P(_)) ==
    IF \E i \in 1..Len(seq) : P(seq[i])
    THEN CHOOSE i \in 1..Len(seq) :
            P(seq[i]) /\ \A j \in 1..(i - 1) : ~P(seq[j])
    ELSE 0

MapSeq(seq, F(_)) == [i \in 1..Len(seq) |-> F(seq[i])]

Range(seq) == {seq[i] : i \in 1..Len(seq)}

RECURSIVE Concat(_)
Concat(ss) == IF ss = <<>> THEN <<>> ELSE Head(ss) \o Concat(Tail(ss))

Min(a, b) == IF a <= b THEN a ELSE b

IdOf(x) == x.id

-----------------------------------------------------------------------------
(* get_supplier, get_batch, get_order: traceability.py:102-119, 352-369,   *)
(* 734-751                                                                 *)

GetSupplier(d, supplier_id) ==
    IF ~d.loaded THEN NotFound("get_supplier", supplier_id, NoDate, NoDate,
                               "no_data")
    ELSE LET i == FirstIndex(d.suppliers, LAMBDA s : s.id = supplier_id)
         IN  IF i = 0
             THEN NotFound("get_supplier", supplier_id, NoDate, NoDate, "key")
             ELSE Ok("get_supplier", supplier_id, NoDate, NoDate,
                     d.suppliers[i])

GetBatch(d, batch_id) ==
    IF ~d.loaded THEN NotFound("get_batch", batch_id, NoDate, NoDate,
                               "no_data")
    ELSE LET i == FirstIndex(d.production_batches,
                             LAMBDA b : b.batch_id = batch_id)
         IN  IF i = 0
             THEN NotFound("get_batch", batch_id, NoDate, NoDate, "key")
             ELSE Ok("get_batch", batch_id, NoDate, NoDate,
                     d.production_batches[i])

GetOrder(d, order_id) ==
    IF ~d.loaded THEN NotFound("get_order", order_id, NoDate, NoDate,
                               "no_data")
    ELSE LET i == FirstIndex(d.orders, LAMBDA o : o.id = order_id)
         IN  IF i = 0
             THEN NotFound("get_order", order_id, NoDate, NoDate, "key")
             ELSE Ok("get_order", order_id, NoDate, NoDate, d.orders[i])

-----------------------------------------------------------------------------
(* backward_trace, traceability.py:414-499 *)

\* 435-441
LotOf(d, lot_number) ==
    FirstIndex(d.material_lots, LAMBDA l : l.lot_number = lot_number)

\* 465-475: the entry of one usage whose lot was found.
TraceEntry(d, u) ==
    LET lot == d.material_lots[LotOf(d, u.lot_number)]
        si  == FirstIndex(d.suppliers, LAMBDA s : s.id = lot.supplier_id)
        mi  == FirstIndex(d.materials_catalog,
                          LAMBDA m : m.id = u.material_id)
    IN  [material_id   |-> u.material_id,
         material_spec |-> IF mi = 0 THEN None
                           ELSE d.materials_catalog[mi].id,
         lot_number    |-> u.lot_number,
         lot_details   |-> lot,
         supplier_id   |-> lot.supplier_id,
         supplier      |-> IF si = 0 THEN None ELSE d.suppliers[si].id]

\* 433-475: entries are appended under `if lot:` only.
MaterialsTrace(d, batch) ==
    MapSeq(SelectSeq(batch.materials_consumed,
                     LAMBDA u : LotOf(d, u.lot_number) # 0),
           LAMBDA u : TraceEntry(d, u))

BackwardTrace(d, batch_id) ==
    IF ~d.loaded THEN NotFound("backward_trace", batch_id, NoDate, NoDate,
                               "no_data")
    ELSE
    LET bi == FirstIndex(d.production_batches,
                         LAMBDA b : b.batch_id = batch_id)
    IN  IF bi = 0
        THEN NotFound("backward_trace", batch_id, NoDate, NoDate, "key")
        ELSE
        LET batch == d.production_batches[bi]
            materials_trace == MaterialsTrace(d, batch)
            supplier_ids == {materials_trace[i].supplier_id :
                                i \in 1..Len(materials_trace)}
            suppliers == SelectSeq(d.suppliers,
                                   LAMBDA s : s.id \in supplier_ids)
        IN  Ok("backward_trace", batch_id, NoDate, NoDate,
               [batch |-> batch,
                materials_trace |-> materials_trace,
                suppliers |-> MapSeq(suppliers, IdOf),
                supply_chain_summary |->
                    [materials_count |-> Len(materials_trace),
                     suppliers_count |-> Len(suppliers),
                     total_parts_produced |-> batch.parts_produced,
                     scrap_parts |-> batch.scrap_parts,
                     \* good_parts / parts_produced * 100, in hundredths
                     quality_rate |->
                         IF batch.parts_produced > 0
                         THEN (batch.good_parts * 10000)
                                  \div batch.parts_produced
                         ELSE 0]])

-----------------------------------------------------------------------------
(* forward_trace, traceability.py:547-644 *)

\* `if start_date and x < start_date: continue`, `if end_date and ...`
InDateRange(date, start, end) ==
    /\ start = NoDate \/ date >= start
    /\ end = NoDate \/ date <= end

\* 562-578
ForwardLots(d, supplier_id, start, end) ==
    SelectSeq(d.material_lots,
              LAMBDA lot : /\ lot.supplier_id = supplier_id
                           /\ InDateRange(lot.received_date, start, end))

\* 596-599
BatchLotNumbers(batch) ==
    {batch.materials_consumed[i].lot_number :
        i \in 1..Len(batch.materials_consumed)}

\* Variant that appends a batch once for every consumed lot of the
\* supplier instead of once (not the code: 596-601 intersects two sets).
ForwardBatchesPerUsage(d, lot_numbers, start, end) ==
    Concat(MapSeq(d.production_batches,
        LAMBDA b : IF InDateRange(b.date, start, end)
                   THEN MapSeq(SelectSeq(b.materials_consumed,
                                   LAMBDA m : m.lot_number \in lot_numbers),
                               LAMBDA m : b)
                   ELSE <<>>))

\* 588-609: the batches appended to affected_batches, in snapshot order.
ForwardBatches(d, lot_numbers, start, end) ==
    SelectSeq(d.production_batches,
              LAMBDA b : /\ InDateRange(b.date, start, end)
                         /\ BatchLotNumbers(b) \cap lot_numbers # {})

ScrapPartsOf(b) == b.scrap_parts

\* Variant without the supplier lookup of 555-559: an unknown supplier
\* gets an empty trace (as trace_forward_from_supplier of the examples).
ForwardTraceUnchecked(d, supplier_id, start, end) ==
    Ok("forward_trace", supplier_id, start, end,
       [supplier |-> supplier_id,
        material_lots_supplied |->
            Len(ForwardLots(d, supplier_id, start, end)),
        affected_batches |-> <<>>, quality_issues |-> <<>>,
        affected_orders |-> <<>>,
        impact_summary |->
            [batches_affected |-> 0, quality_issues_count |-> 0,
             total_defects |-> 0, orders_affected |-> 0,
             estimated_cost_impact |-> 0]])

ForwardTrace(d, supplier_id, start, end) ==
    IF ~d.loaded THEN NotFound("forward_trace", supplier_id, start, end,
                               "no_data")
    ELSE
    IF FirstIndex(d.suppliers, LAMBDA s : s.id = supplier_id) = 0
    THEN NotFound("forward_trace", supplier_id, start, end, "key")
    ELSE
    LET material_lots == ForwardLots(d, supplier_id, start, end)
        lot_numbers   == {material_lots[i].lot_number :
                             i \in 1..Len(material_lots)}
        matching      == ForwardBatches(d, lot_numbers, start, end)
        with_scrap    == SelectSeq(matching, LAMBDA b : b.scrap_parts > 0)
        total_defects == SumOver(with_scrap, ScrapPartsOf)
        order_ids     == {matching[i].order_id : i \in 1..Len(matching)}
                             \ {None}
        affected_orders ==
            SelectSeq(d.orders, LAMBDA o : o.id \in order_ids)
    IN  Ok("forward_trace", supplier_id, start, end,
           [supplier |-> supplier_id,
            material_lots_supplied |-> Len(material_lots),
            affected_batches |->
                MapSeq(matching,
                       LAMBDA b : [batch_id |-> b.batch_id, date |-> b.date,
                                   machine_name |-> b.machine_name,
                                   parts_produced |-> b.parts_produced,
                                   scrap_parts |-> b.scrap_parts,
                                   order_id |-> b.order_id]),
            quality_issues |->
                MapSeq(with_scrap,
                       LAMBDA b : [batch_id |-> b.batch_id, date |-> b.date,
                                   defect_count |-> b.scrap_parts]),
            affected_orders |-> MapSeq(affected_orders, IdOf),
            impact_summary |->
                [batches_affected |-> Len(matching),
                 quality_issues_count |-> Len(with_scrap),
                 total_defects |-> total_defects,
                 orders_affected |-> Len(affected_orders),
                 estimated_cost_impact |-> total_defects * CostPerDefect]])

-----------------------------------------------------------------------------
(* get_supplier_impact, traceability.py:164-251 *)

\* Variant that keeps every lot of the supplier, whatever its
\* received_date (not the code: 186-195 filter the lots by the dates).
ImpactLotsUndated(d, supplier_id, start, end) ==
    SelectSeq(d.material_lots, LAMBDA lot : lot.supplier_id = supplier_id)

\* 180-195
ImpactLots(d, supplier_id, start, end) ==
    LET of_supplier == SelectSeq(d.material_lots,
                                 LAMBDA lot : lot.supplier_id = supplier_id)
        from_start  == IF start # NoDate
                       THEN SelectSeq(of_supplier,
                                LAMBDA lot : lot.received_date >= start)
                       ELSE of_supplier
    IN  IF end # NoDate
        THEN SelectSeq(from_start, LAMBDA lot : lot.received_date <= end)
        ELSE from_start

\* 204-225
ImpactBatches(d, lot_numbers, start, end) ==
    SelectSeq(d.production_batches,
              LAMBDA b : /\ ~(start # NoDate /\ b.date < start)
                         /\ ~(end # NoDate /\ b.date > end)
                         /\ \E i \in 1..Len(b.materials_consumed) :
                               b.materials_consumed[i].lot_number
                                   \in lot_numbers)

\* x[:10]
FirstTen(seq) == SubSeq(seq, 1, Min(Len(seq), ResponseLimit))

\* Variant that answers 404 whenever a lookup has nothing to report.
SupplierImpactEmptyIsNotFound(d, supplier_id, start, end) ==
    NotFound("supplier_impact", supplier_id, start, end, "key")

SupplierImpact(d, supplier_id, start, end) ==
    IF ~d.loaded THEN NotFound("supplier_impact", supplier_id, start, end,
                               "no_data")
    ELSE
    IF FirstIndex(d.suppliers, LAMBDA s : s.id = supplier_id) = 0
    THEN NotFound("supplier_impact", supplier_id, start, end, "key")
    ELSE
    LET material_lots == ImpactLots(d, supplier_id, start, end)
        lot_numbers   == Range(MapSeq(material_lots,
                                      LAMBDA lot : lot.lot_number))
        affected      == ImpactBatches(d, lot_numbers, start, end)
        with_defects  == SelectSeq(affected, LAMBDA b : b.scrap_parts > 0)
        total_defects == SumOver(with_defects, ScrapPartsOf)
    IN  Ok("supplier_impact", supplier_id, start, end,
           [supplier |-> supplier_id,
            material_lots_supplied |-> Len(material_lots),
            affected_batches_count |-> Len(affected),
            quality_issues_count |-> Len(with_defects),
            total_defects |-> total_defects,
            estimated_cost_impact |-> total_defects * CostPerDefect,
            material_lots |-> material_lots,
            affected_batches |->
                FirstTen(MapSeq(affected,
                    LAMBDA b : [batch_id |-> b.batch_id, date |-> b.date,
                                machine_name |-> b.machine_name,
                                parts_produced |-> b.parts_produced,
                                scrap_parts |-> b.scrap_parts,
                                materials_consumed |->
                                    b.materials_consumed])),
            quality_issues |->
                FirstTen(MapSeq(with_defects,
                    LAMBDA b : [batch_id |-> b.batch_id, date |-> b.date,
                                defect_count |-> b.scrap_parts]))])

-----------------------------------------------------------------------------
(* trace_material_lot and trace_serial_number,                             *)
(* docs/traceability_examples.py:329-536.  They read the rollup            *)
(* data_store["production"][date][machine]["batches"].                     *)

RECURSIVE GroupAll(_, _)
GroupAll(bdm, bs) ==
    IF bs = <<>> THEN bdm
    ELSE GroupAll(AppendBatch(bdm, Head(bs)), Tail(bs))

\* for date, machines in ...items(): for machine, metrics in ...items()
ProductionGroups(d) == FlattenGroups(GroupAll(<<>>, d.production_batches))

\* 366-377: one entry for every material of the batch with this lot.
LotUsagesOfBatch(g, batch, lot_number) ==
    MapSeq(SelectSeq(batch.materials_consumed,
                     LAMBDA m : m.lot_number = lot_number),
           LAMBDA m : [batch_id |-> batch.batch_id, date |-> g.date,
                       machine |-> g.machine_name,
                       order_id |-> batch.order_id,
                       serial_range |-> [start |-> batch.serial_start,
                                         end |-> batch.serial_end]])

\* 360-377
BatchesUsingLot(d, lot_number) ==
    Concat(MapSeq(ProductionGroups(d),
        LAMBDA g : Concat(MapSeq(g.batches,
            LAMBDA b : LotUsagesOfBatch(g, b, lot_number)))))

\* affected_serials is kept as the serial_range of every usage entry.
LotTrace(d, lot_number) ==
    LET li == FirstIndex(d.material_lots,
                         LAMBDA l : l.lot_number = lot_number)
    IN  IF li = 0
        THEN NotFound("lot_trace", lot_number, NoDate, NoDate, "key")
        ELSE
        LET lot == d.material_lots[li]
            si  == FirstIndex(d.suppliers, LAMBDA s : s.id = lot.supplier_id)
            batches_using_lot == BatchesUsingLot(d, lot_number)
            related_issues ==
                SelectSeq(d.quality_issues,
                          LAMBDA i : lot_number \in i.suspected_lots)
            quarantine_recommended ==
                /\ Len(related_issues) > 0
                /\ \E i \in 1..Len(related_issues) :
                      related_issues[i].severity = "High"
        IN  Ok("lot_trace", lot_number, NoDate, NoDate,
               [lot |-> lot,
                supplier |-> IF si = 0 THEN None ELSE d.suppliers[si].id,
                usage |-> [batches_count |-> Len(batches_using_lot),
                           batches |-> batches_using_lot],
                quality_issues |->
                    [count |-> Len(related_issues),
                     issues |-> MapSeq(related_issues,
                                       LAMBDA i : i.issue_id)],
                affected_serials |->
                    MapSeq(batches_using_lot, LAMBDA b : b.serial_range),
                quarantine_recommendation |->
                    [should_quarantine |-> quarantine_recommended,
                     affected_batches |->
                         IF quarantine_recommended
                         THEN MapSeq(related_issues, LAMBDA i : i.batch_id)
                         ELSE <<>>]])

\* Variant with a half-open range (not the code: 467 is
\* start <= serial_number <= end).
ContainsSerialHalfOpen(batch, serial_number) ==
    /\ batch.serial_start <= serial_number
    /\ serial_number < batch.serial_end

\* 466-467
ContainsSerial(batch, serial_number) ==
    /\ batch.serial_start <= serial_number
    /\ serial_number <= batch.serial_end

\* 485-503
MaterialsUsed(d, batch) ==
    MapSeq(batch.materials_consumed,
        LAMBDA m :
            LET li == FirstIndex(d.material_lots,
                                 LAMBDA l : l.lot_number = m.lot_number)
                si == IF li = 0 THEN 0
                      ELSE FirstIndex(d.suppliers,
                               LAMBDA s :
                                   s.id = d.material_lots[li].supplier_id)
            IN  [material_id |-> m.material_id,
                 lot_number |-> m.lot_number,
                 supplier |-> IF si = 0 THEN "Unknown"
                              ELSE d.suppliers[si].name])

\* 465-473: `break` leaves the innermost loop only, so the batch kept is
\* the first match of the last group that has one.
SerialTrace(d, serial_number) ==
    LET groups == ProductionGroups(d)
        hits   == {i \in 1..Len(groups) :
                      \E j \in 1..Len(groups[i].batches) :
                          ContainsSerial(groups[i].batches[j],
                                         serial_number)}
    IN  IF hits = {}
        THEN NotFound("serial_trace", serial_number, NoDate, NoDate, "key")
        ELSE
        LET g == groups[CHOOSE i \in hits : \A k \in hits : k <= i]
            batch_info ==
                g.batches[FirstIndex(g.batches,
                    LAMBDA b : ContainsSerial(b, serial_number))]
            oi == FirstIndex(d.orders,
                             LAMBDA o : o.id = batch_info.order_id)
            quality_issues_affecting ==
                SelectSeq(d.quality_issues,
                          LAMBDA i : serial_number \in i.affected_serials)
        IN  Ok("serial_trace", serial_number, NoDate, NoDate,
               [serial_number |-> serial_number,
                production |-> [date |-> g.date,
                                machine |-> g.machine_name,
                                batch_id |-> batch_info.batch_id],
                order |-> IF oi = 0 THEN None ELSE d.orders[oi].id,
                materials |-> MaterialsUsed(d, batch_info),
                quality_issues |->
                    MapSeq(quality_issues_affecting,
                           LAMBDA i : i.issue_id),
                status |-> IF quality_issues_affecting # <<>>
                           THEN "DEFECTIVE" ELSE "OK"])

-----------------------------------------------------------------------------
(* list_suppliers, list_batches, list_orders and get_order_batches,        *)
(* traceability.py:33-74, 269-323, 662-705, 764-827                        *)

\* list.sort(): stable.  Before(a, b): a's key sorts strictly before b's.
\* The element at position i goes behind those that sort before it and
\* behind the earlier ones of equal key.
StableSort(seq, Before(_, _)) ==
    LET Rank(i) == 1 + Cardinality({j \in 1..Len(seq) :
                          \/ Before(seq[j], seq[i])
                          \/ /\ ~Before(seq[i], seq[j])
                             /\ j < i})
    IN  [r \in 1..Len(seq) |->
            seq[CHOOSE i \in 1..Len(seq) : Rank(i) = r]]

\* x[:limit]
Take(seq, limit) == SubSeq(seq, 1, Min(Len(seq), limit))

ListSuppliers(d, status) ==
    IF ~d.loaded
    THEN Ok("list_suppliers", [status |-> status], NoDate, NoDate, <<>>)
    ELSE
    LET suppliers == IF status # None
                     THEN SelectSeq(d.suppliers, LAMBDA s : s.status = status)
                     ELSE d.suppliers
    IN  Ok("list_suppliers", [status |-> status], NoDate, NoDate,
           StableSort(suppliers,
                      LAMBDA a, b : a.quality_rating > b.quality_rating))

ListBatches(d, f, start, end) ==
    IF ~d.loaded THEN Ok("list_batches", f, start, end, <<>>)
    ELSE
    LET batches ==
            SelectSeq(d.production_batches,
                LAMBDA b :
                    /\ f.machine_id # NoMachine
                          => b.machine_id = f.machine_id
                    /\ start # NoDate => b.date >= start
                    /\ end # NoDate => b.date <= end
                    /\ f.order_id # None => b.order_id = f.order_id)
    IN  Ok("list_batches", f, start, end,
           Take(StableSort(batches, LAMBDA a, b : a.date > b.date),
                f.limit))

ListOrders(d, f) ==
    IF ~d.loaded THEN Ok("list_orders", f, NoDate, NoDate, <<>>)
    ELSE
    LET orders == IF f.status # None
                  THEN SelectSeq(d.orders, LAMBDA o : o.status = f.status)
                  ELSE d.orders
    IN  Ok("list_orders", f, NoDate, NoDate,
           Take(StableSort(orders, LAMBDA a, b : a.due_date < b.due_date),
                f.limit))

GetOrderBatches(d, order_id) ==
    IF ~d.loaded THEN NotFound("get_order_batches", order_id, NoDate, NoDate,
                               "no_data")
    ELSE
    LET oi == FirstIndex(d.orders, LAMBDA o : o.id = order_id)
    IN  IF oi = 0
        THEN NotFound("get_order_batches", order_id, NoDate, NoDate, "key")
        ELSE
        LET assigned_batches ==
                SelectSeq(d.production_batches,
                          LAMBDA b : b.order_id = order_id)
            total_produced == SumOver(assigned_batches, PartsOf)
            total_good     == SumOver(assigned_batches, GoodOf)
        IN  Ok("get_order_batches", order_id, NoDate, NoDate,
               [order |-> d.orders[oi],
                assigned_batches |-> assigned_batches,
                production_summary |->
                    [batches_count |-> Len(assigned_batches),
                     total_produced |-> total_produced,
                     total_good_parts |-> total_good,
                     total_scrap |-> SumOver(assigned_batches, ScrapOf),
                     \* total_good / total_produced * 100, in hundredths
                     quality_rate |->
                         IF total_produced > 0
                         THEN (total_good * 10000) \div total_produced
                         ELSE 0]])

\* The answer of the query r answers, asked again on the snapshot d.
Answer(d, r) ==
    CASE r.op = "get_supplier"   -> GetSupplier(d, r.key)
      [] r.op = "get_batch"      -> GetBatch(d, r.key)
      [] r.op = "get_order"      -> GetOrder(d, r.key)
      [] r.op = "get_order_batches" -> GetOrderBatches(d, r.key)
      [] r.op = "backward_trace" -> BackwardTrace(d, r.key)
      [] r.op = "forward_trace"
            -> ForwardTrace(d, r.key, r.start_date, r.end_date)
      [] r.op = "supplier_impact"
            -> SupplierImpact(d, r.key, r.start_date, r.end_date)
      [] r.op = "list_suppliers" -> ListSuppliers(d, r.key.status)
      [] r.op = "list_batches"
            -> ListBatches(d, r.key, r.start_date, r.end_date)
      [] r.op = "list_orders"    -> ListOrders(d, r.key)
      [] r.op = "lot_trace"      -> LotTrace(d, r.key)
      [] r.op = "serial_trace"   -> SerialTrace(d, r.key)

-----------------------------------------------------------------------------
(* The metrics reducers, shared/metrics.py.  A date argument is the text   *)
(* the caller passes: kind "iso" is a calendar date (day is its day        *)
(* number), kind "shaped" matches \d{4}-\d{2}-\d{2} without being a        *)
(* calendar date, kind "malformed" does not match the pattern.             *)

DateArg(kind, day, text) == [kind |-> kind, day |-> day, text |-> text]

Day1 == DateArg("iso", 1, "2024-01-01")
Day2 == DateArg("iso", 2, "2024-01-02")
Shaped == DateArg("shaped", 0, "2024-13-45")
Malformed == DateArg("malformed", 0, "01/02/2024")

\* The (start_date, end_date) pairs a reducer is called with.
MetricRanges ==
    { <<Day1, Day1>>, <<Day1, Day2>>, <<Day2, Day1>>,
      <<Malformed, Day2>>, <<Day1, Malformed>>, <<Shaped, Day2>> }

MetricMachines == {None, "CNC-001"}

MetricSeverities == {None, "Low"}

\* metrics.py:30, the default of OEE_PERFORMANCE_FACTOR, in percent
PerformancePct == 95

\* metrics.py:170: 2 shifts * 8 hours, in hundredths of an hour
PlannedPerRecord == 1600

\* metrics.py:401: a major event lasts more than 2.0 hours (hundredths)
MajorEventHours == 200

\* metrics.py:46-59
validate_date_format(date_str) == date_str.kind \in {"iso", "shaped"}

NoError == [exc |-> "none", param |-> "none", value |-> "none"]

\* metrics.py:74-86: the message names the parameter and the value
DateValidationError(date_str, param_name) ==
    [exc |-> "DateValidationError", param |-> param_name,
     value |-> date_str.text]

\* metrics.py:109-110: fromisoformat of a text that is no calendar date
ValueError(date_str, param_name) ==
    [exc |-> "ValueError", param |-> param_name, value |-> date_str.text]

\* metrics.py:104-110: what get_date_range raises, NoError when it returns
DateRangeRaises(start_date, end_date) ==
    IF ~validate_date_format(start_date)
    THEN DateValidationError(start_date, "start_date")
    ELSE IF ~validate_date_format(end_date)
    THEN DateValidationError(end_date, "end_date")
    ELSE IF start_date.kind # "iso" THEN ValueError(start_date, "start_date")
    ELSE IF end_date.kind # "iso" THEN ValueError(end_date, "end_date")
    ELSE NoError

\* metrics.py:112-116: while current <= end
get_date_range(start_date, end_date) ==
    [i \in 1..Max(0, end_date.day - start_date.day + 1) |->
        start_date.day + i - 1]

\* metrics.py:146: [d for d in dates if d in data["production"]]
ValidDates(prod, dates) ==
    SelectSeq(dates, LAMBDA d : \E k \in DOMAIN prod : k[1] = d)

\* The records the nested loops of a reducer visit, in order: the dates
\* ascending, the machines of a date in the order of the rollup's keys, or
\* the one machine asked for when the rollup has it.
RECURSIVE MachineRecords(_, _, _, _)
MachineRecords(prod, groups, dates, machine_name) ==
    IF dates = <<>> THEN <<>>
    ELSE LET date == Head(dates)
             day  == SelectSeq(groups, LAMBDA g :
                        /\ g.date = date
                        /\ machine_name \in {None, g.machine_name})
         IN  [j \in 1..Len(day) |->
                 [date    |-> date,
                  machine |-> day[j].machine_name,
                  m_data  |-> prod[<<date, day[j].machine_name>>]]]
             \o MachineRecords(prod, groups, Tail(dates), machine_name)

\* The outcome of a reducer: an error dictionary, a result model, or an
\* exception leaving the call.
ErrorDict(message) ==
    [status |-> "error", message |-> message, exc |-> "none",
     cause |-> NoError, body |-> <<>>]

Model(body) ==
    [status |-> "ok", message |-> "none", exc |-> "none",
     cause |-> NoError, body |-> body]

\* except Exception as e: raise RuntimeError(f"Failed to ...: {e}") from e.
\* The caller receives a RuntimeError; e is its __cause__, and the text
\* of e is the tail of its message.
RuntimeErrorFrom(e) ==
    [status |-> "raised", message |-> "Failed", exc |-> "RuntimeError",
     cause |-> e, body |-> <<>>]

\* pydantic refuses a model one of whose fields is out of its range
ValidationError == [exc |-> "ValidationError", param |-> "none",
                    value |-> "none"]

UptimeOf(r) == r.m_data.uptime_hours
PartsProducedOf(r) == r.m_data.parts_produced
GoodPartsOf(r) == r.m_data.good_parts
ScrapPartsOfRecord(r) == r.m_data.scrap_parts
DowntimeOf(r) == r.m_data.downtime_hours

\* metrics.py:138-198.  d is what load_data_async returns: whether a
\* snapshot is stored, its production rollup, and the order of the keys of
\* the rollup.  The rates are rounded to three decimals and counted in
\* thousandths; tA, tQ, tO are the sides of the ties of availability,
\* quality and oee.
calculate_oee(d, start_date, end_date, machine_name, tA, tQ, tO) ==
    IF ~d.loaded THEN ErrorDict("No data available")
    ELSE IF DateRangeRaises(start_date, end_date) # NoError
    THEN RuntimeErrorFrom(DateRangeRaises(start_date, end_date))
    ELSE
    LET valid_dates ==
            ValidDates(d.production, get_date_range(start_date, end_date))
        recs == MachineRecords(d.production, d.groups, valid_dates,
                               machine_name)
        total_parts  == SumOver(recs, PartsProducedOf)
        total_good   == SumOver(recs, GoodPartsOf)
        total_uptime == SumOver(recs, UptimeOf)
        total_planned_time == PlannedPerRecord * Len(recs)
        availability == Round2(total_uptime * 1000, total_planned_time, tA)
        quality == IF total_parts > 0
                   THEN Round2(total_good * 1000, total_parts, tQ) ELSE 0
        oee == IF total_parts > 0
               THEN Round2(total_uptime * PerformancePct * total_good,
                           (total_planned_time \div 10) * total_parts, tO)
               ELSE 0
        performance == PerformancePct * 10
    IN  IF valid_dates = <<>>
        THEN ErrorDict("No data for specified date range")
        ELSE IF total_planned_time = 0 THEN ErrorDict("No valid data found")
        ELSE IF \/ oee > 1000 \/ availability > 1000 \/ quality > 1000
                \/ total_parts - total_good < 0
        THEN RuntimeErrorFrom(ValidationError)
        ELSE Model([oee          |-> oee,
                    availability |-> availability,
                    performance  |-> performance,
                    quality      |-> quality,
                    total_parts  |-> total_parts,
                    good_parts   |-> total_good,
                    scrap_parts  |-> total_parts - total_good])

\* scrap_by_machine, metrics.py:235, 252-253, 261: the scrap of each machine
\* visited, None when a machine was asked for or nothing was visited.
ScrapByMachine(recs, machine_name) ==
    IF machine_name # None \/ recs = <<>> THEN <<>>
    ELSE [m \in {recs[i].machine : i \in 1..Len(recs)} |->
             SumOver(SelectSeq(recs, LAMBDA r : r.machine = m),
                     ScrapPartsOfRecord)]

\* metrics.py:225-262.  The rate is in hundredths of a percent.
get_scrap_metrics(d, start_date, end_date, machine_name, tRate) ==
    IF ~d.loaded THEN ErrorDict("No data available")
    ELSE IF DateRangeRaises(start_date, end_date) # NoError
    THEN RuntimeErrorFrom(DateRangeRaises(start_date, end_date))
    ELSE
    LET valid_dates ==
            ValidDates(d.production, get_date_range(start_date, end_date))
        recs == MachineRecords(d.production, d.groups, valid_dates,
                               machine_name)
        total_scrap == SumOver(recs, ScrapPartsOfRecord)
        total_parts == SumOver(recs, PartsProducedOf)
        scrap_rate  == IF total_parts > 0
                       THEN Round2(total_scrap * 10000, total_parts, tRate)
                       ELSE 0
    IN  IF scrap_rate > 10000
        THEN RuntimeErrorFrom(ValidationError)
        ELSE Model([total_scrap      |-> total_scrap,
                    total_parts      |-> total_parts,
                    scrap_rate       |-> scrap_rate,
                    scrap_by_machine |-> ScrapByMachine(recs, machine_name)])

\* metrics.py:312-337: the issues of one record that pass the filter
IssuesOfRecord(r, severity) ==
    LET kept == SelectSeq(r.m_data.quality_issues,
                          LAMBDA issue : severity \in {None, issue.severity})
    IN  [i \in 1..Len(kept) |->
            [type           |-> kept[i].type,
             description    |-> kept[i].description,
             parts_affected |-> kept[i].parts_affected,
             severity       |-> kept[i].severity,
             date           |-> r.date,
             machine        |-> r.machine]]

PartsAffectedOf(issue) == issue.parts_affected

\* metrics.py:293-344
get_quality_issues(d, start_date, end_date, severity, machine_name) ==
    IF ~d.loaded THEN ErrorDict("No data available")
    ELSE IF DateRangeRaises(start_date, end_date) # NoError
    THEN RuntimeErrorFrom(DateRangeRaises(start_date, end_date))
    ELSE
    LET valid_dates ==
            ValidDates(d.production, get_date_range(start_date, end_date))
        recs == MachineRecords(d.production, d.groups, valid_dates,
                               machine_name)
        issues == Concat([i \in 1..Len(recs) |->
                             IssuesOfRecord(recs[i], severity)])
    IN  Model([issues               |-> issues,
               total_issues         |-> Len(issues),
               total_parts_affected |-> SumOver(issues, PartsAffectedOf),
               severity_breakdown   |->
                   [sev \in {issues[i].severity : i \in 1..Len(issues)} |->
                       Len(SelectSeq(issues,
                                     LAMBDA issue : issue.severity = sev))]])

\* metrics.py:393-409: the events of one record, with its date and machine
EventsOfRecord(r) ==
    [i \in 1..Len(r.m_data.downtime_events) |->
        [date           |-> r.date,
         machine        |-> r.machine,
         reason         |-> r.m_data.downtime_events[i].reason,
         duration_hours |-> r.m_data.downtime_events[i].duration_hours]]

EventHoursOf(event) == event.duration_hours

\* metrics.py:371-415.  Hours are in hundredths.
get_downtime_analysis(d, start_date, end_date, machine_name) ==
    IF ~d.loaded THEN ErrorDict("No data available")
    ELSE IF DateRangeRaises(start_date, end_date) # NoError
    THEN RuntimeErrorFrom(DateRangeRaises(start_date, end_date))
    ELSE
    LET valid_dates ==
            ValidDates(d.production, get_date_range(start_date, end_date))
        recs == MachineRecords(d.production, d.groups, valid_dates,
                               machine_name)
        events == Concat([i \in 1..Len(recs) |-> EventsOfRecord(recs[i])])
    IN  Model([total_downtime_hours |-> SumOver(recs, DowntimeOf),
               downtime_by_reason   |->
                   [reason \in {events[i].reason : i \in 1..Len(events)} |->
                       SumOver(SelectSeq(events,
                                   LAMBDA event : event.reason = reason),
                               EventHoursOf)],
               major_events         |->
                   SelectSeq(events, LAMBDA event :
                       event.duration_hours > MajorEventHours)])

\* What the caller of a reducer holds: the call and its outcome.
NoResult ==
    [op |-> "none", start_date |-> DateArg("iso", 0, "none"),
     end_date |-> DateArg("iso", 0, "none"), machine_name |-> None,
     severity |-> None, outcome |-> ErrorDict("none")]

Result(op, start_date, end_date, machine_name, severity, outcome) ==
    [op |-> op, start_date |-> start_date, end_date |-> end_date,
     machine_name |-> machine_name, severity |-> severity,
     outcome |-> outcome]

-----------------------------------------------------------------------------
(* The generator, shared/data_generator.py: generate_material_lots and     *)
(* generate_production_batches as generate_production_data calls them      *)
(* (data.py:595-638).  Every draw of `random` is any value of a small      *)
(* sample of its range.  Quantities are in hundredths.                     *)

\* data_generator.py:38-125, two of the suppliers; the rates in tenths
GenSuppliers ==
    << [id |-> "SUP-001", name |-> "SteelCorp International",
        materials_supplied |-> {"MAT-001", "MAT-002"},
        quality_rating |-> 925, defect_rate |-> 12],
       [id |-> "SUP-004", name |-> "ComponentTech Industries",
        materials_supplied |-> {"MAT-007", "MAT-008"},
        quality_rating |-> 850, defect_rate |-> 32] >>

\* data_generator.py:145-250, two of the materials
GenMaterials ==
    << [id |-> "MAT-001", name |-> "Steel Bar 304 Stainless", unit |-> "kg"],
       [id |-> "MAT-007", name |-> "Electronic Control Module ECM-2000",
        unit |-> "pieces"] >>

\* data.py:39-63, three of the machines
GenMachines ==
    << [id |-> 1, name |-> "CNC-001"],
       [id |-> 2, name |-> "Assembly-001"],
       [id |-> 4, name |-> "Testing-001"] >>

GenShifts == << [id |-> 1, name |-> "Day"], [id |-> 2, name |-> "Night"] >>

GenOrders ==
    << [id |-> "ORD-001", status |-> "InProgress"],
       [id |-> "ORD-002", status |-> "Completed"],
       [id |-> "ORD-003", status |-> "Pending"] >>

LotStatuses == {"Available", "InUse", "Depleted", "Quarantine", "Rejected"}

\* random.uniform(0.3, 1.0), in percent
RemainingFractions == {30, 100}

\* random.randint(0, days - 1)
GenDayOffsets == {0}

\* data_generator.py:303-308: randint(500, 2000), randint(1000, 5000),
\* randint(100, 1000)
QuantitySamples(unit) ==
    IF unit = "kg" THEN {500}
    ELSE IF unit = "pieces" THEN {1000}
    ELSE {100}

NoLot == <<>>

\* Variant (not the code): a depleted lot keeps what it received.
QuantityRemainingKept(status, quantity, fraction) ==
    IF status \in {"InUse", "Available"} THEN quantity * fraction
    ELSE quantity * 100

\* data_generator.py:347-353
QuantityRemaining(status, quantity, fraction) ==
    IF status = "Depleted" THEN 0
    ELSE IF status \in {"InUse", "Available"} THEN quantity * fraction
    ELSE quantity * 100

\* data_generator.py:355-368.  lot_number is LOT-<received_date>-<n>, n the
\* lot counter.
MakeLot(material, supplier, received_date, n, quantity, status, fraction) ==
    [lot_number         |-> <<received_date, n>>,
     material_id        |-> material.id,
     supplier_id        |-> supplier.id,
     received_date      |-> received_date,
     quantity_received  |-> quantity * 100,
     quantity_remaining |-> QuantityRemaining(status, quantity, fraction),
     status             |-> status,
     quarantine         |-> status = "Quarantine"]

\* data_generator.py:288-290
MatchingSuppliers(suppliers, material) ==
    SelectSeq(suppliers, LAMBDA s : material.id \in s.materials_supplied)

\* The production data generate_production_batches reads: the day records
\* by (date, machine), each with its shifts and its quality issues.
ShiftData(parts, scrap) ==
    [parts_produced |-> parts, scrap_parts |-> scrap,
     good_parts |-> parts - scrap]

MaterialIssue ==
    [type |-> "material", description |-> "Material defect",
     parts_affected |-> 2, severity |-> "High"]

GenProductions ==
    { (<<1, "CNC-001">> :>
          [shifts |-> ("Day" :> ShiftData(5, 1) @@ "Night" :> ShiftData(1, 0)),
           quality_issues |-> <<MaterialIssue>>]),
      (<<1, "Assembly-001">> :>
          [shifts |-> ("Day" :> ShiftData(4, 2) @@ "Night" :> ShiftData(0, 0)),
           quality_issues |-> <<OneIssue, MaterialIssue>>])
      @@ (<<2, "CNC-001">> :>
          [shifts |-> ("Day" :> ShiftData(3, 0)),
           quality_issues |-> <<>>]),
      (<<1, "Testing-001">> :>
          [shifts |-> ("Day" :> ShiftData(1, 2)),
           quality_issues |-> <<MaterialIssue>>]),
      <<>> }

DateOrder == <<1, 2>>

\* data_generator.py:659-689: the shifts the nested loops reach, in order:
\* the dates sorted, the machines and the shifts in the order of their
\* lists, without the machines and shifts the day has not and without the
\* shifts that produced nothing.
ShiftSlots(production_) ==
    Concat([i \in 1..Len(DateOrder) |->
        Concat([j \in 1..Len(GenMachines) |->
            LET key == <<DateOrder[i], GenMachines[j].name>>
            IN  IF key \notin DOMAIN production_ THEN <<>>
                ELSE
                LET daily_data == production_[key]
                    present == SelectSeq(GenShifts, LAMBDA shift :
                        /\ shift.name \in DOMAIN daily_data.shifts
                        /\ daily_data.shifts[shift.name].parts_produced # 0)
                IN  [k \in 1..Len(present) |->
                        [date           |-> DateOrder[i],
                         machine        |-> GenMachines[j],
                         shift          |-> present[k],
                         shift_data     |-> daily_data.shifts[present[k].name],
                         quality_issues |-> daily_data.quality_issues]]])])

\* data_generator.py:642
AvailableOrders(orders_) ==
    SelectSeq(orders_, LAMBDA o : o.status \in {"Pending", "InProgress"})

\* Variant (not the code): the order id is made from the counter.
OrderIdFromCounter(orders_, order_index_) ==
    IF AvailableOrders(orders_) = <<>> THEN None ELSE "ORD-000"

\* data_generator.py:712-722
OrderIdFor(orders_, order_index_) ==
    LET available_orders == AvailableOrders(orders_)
    IN  IF available_orders = <<>> THEN None
        ELSE available_orders[(order_index_ % Len(available_orders)) + 1].id

\* data_generator.py:726-737: machine_name.startswith("CNC"), ...
MatIds(machine_name) ==
    IF machine_name = "CNC-001" THEN <<"MAT-001", "MAT-002", "MAT-003">>
    ELSE IF machine_name = "Assembly-001"
    THEN <<"MAT-005", "MAT-006", "MAT-007">>
    ELSE IF machine_name = "Packaging-001" THEN <<"MAT-007", "MAT-008">>
    ELSE <<"MAT-008">>

\* The materials of a machine that the catalogue has.
CatalogMatIds(machine_name) ==
    SelectSeq(MatIds(machine_name), LAMBDA mat_id :
        \E i \in 1..Len(GenMaterials) : GenMaterials[i].id = mat_id)

\* data_generator.py:742-747
AvailableLots(lots_, mat_id) ==
    SelectSeq(lots_, LAMBDA lot :
        /\ lot.material_id = mat_id
        /\ lot.status \in {"Available", "InUse"}
        /\ lot.quantity_remaining > 0)

\* random.choice(seq) with the draw n
Choice(seq, n) == seq[((n - 1) % Len(seq)) + 1]

\* data_generator.py:739-761.  pick[i] is the draw of the lot of the
\* machine's i-th catalogue material.
MaterialsConsumed(lots_, machine_name, pick) ==
    LET cat  == CatalogMatIds(machine_name)
        used == SelectSeq([i \in 1..Len(cat) |-> [mat_id |-> cat[i], n |-> i]],
                    LAMBDA m : AvailableLots(lots_, m.mat_id) # <<>>)
    IN  [i \in 1..Len(used) |->
            [material_id |-> used[i].mat_id,
             lot_number  |->
                 Choice(AvailableLots(lots_, used[i].mat_id),
                        pick[used[i].n]).lot_number]]

\* data_generator.py:764-810: one issue of the day given to the batch.
\* link is the draw of the usage a material issue is linked to.
BatchIssue(lots_, issue_data, slot_, materials_consumed, link) ==
    LET linked == issue_data.type = "material" /\ materials_consumed # <<>>
        usage  == Choice(materials_consumed, link)
        li     == IF linked
                  THEN FirstIndex(lots_,
                           LAMBDA lot : lot.lot_number = usage.lot_number)
                  ELSE 0
        si     == IF li # 0
                  THEN FirstIndex(GenSuppliers,
                           LAMBDA s : s.id = lots_[li].supplier_id)
                  ELSE 0
    IN  [type           |-> issue_data.type,
         description    |-> issue_data.description,
         parts_affected |-> issue_data.parts_affected,
         severity       |-> issue_data.severity,
         date           |-> slot_.date,
         machine        |-> slot_.machine.name,
         material_id    |-> IF linked THEN usage.material_id ELSE None,
         lot_number     |-> IF linked THEN usage.lot_number ELSE NoLot,
         supplier_id    |-> IF li # 0 THEN lots_[li].supplier_id ELSE None,
         root_cause     |->
             IF si = 0 THEN "unknown"
             ELSE IF GenSuppliers[si].defect_rate > 30
             THEN "supplier_quality" ELSE "material_defect"]

\* data_generator.py:814
SerialEnd(serial_counter_, batch_parts) == serial_counter_ + batch_parts - 1

\* Variant (not the code): the next range starts on the last serial.
SerialCounterAtEnd(serial_end_) == serial_end_

\* data_generator.py:815
NextSerialCounter(serial_end_) == serial_end_ + 1

\* data_generator.py:694-849: one batch of a shift.  parts, scrap: its share
\* of the shift; index_, serial_: the order index and the serial counter it
\* starts from; d: its draws.
MakeBatch(lots_, orders_, slot_, batch_num, parts, scrap, index_, serial_, d) ==
    LET materials_consumed ==
            MaterialsConsumed(lots_, slot_.machine.name, d.pick)
    IN  [batch_id       |-> <<slot_.date, slot_.machine.name,
                              slot_.shift.name, batch_num + 1>>,
         date           |-> slot_.date,
         machine_id     |-> slot_.machine.id,
         machine_name   |-> slot_.machine.name,
         shift_id       |-> slot_.shift.id,
         shift_name     |-> slot_.shift.name,
         order_id       |-> OrderIdFor(orders_, index_),
         parts_produced |-> parts,
         good_parts     |-> parts - scrap,
         scrap_parts    |-> scrap,
         serial_start   |-> serial_,
         serial_end     |-> SerialEnd(serial_, parts),
         materials_consumed |-> materials_consumed,
         quality_issues |->
             IF batch_num = 0
             THEN [i \in 1..Len(slot_.quality_issues) |->
                      BatchIssue(lots_, slot_.quality_issues[i], slot_,
                                 materials_consumed, d.link)]
             ELSE <<>>]

\* models.py:244-257: what pydantic accepts; a batch it refuses is skipped
\* (data_generator.py:851-856).
ValidBatch(b) ==
    /\ b.machine_id >= 1
    /\ b.shift_id >= 1
    /\ b.parts_produced >= 0
    /\ b.good_parts >= 0
    /\ b.scrap_parts >= 0

\* The draws of one batch: a lot for each catalogue material of the
\* machine, and the usage a material issue is linked to.
BatchDraws(lots_, machine_name) ==
    [pick : [1..Len(CatalogMatIds(machine_name)) -> 1..Max(1, Len(lots_))],
     link : 1..Max(1, Len(CatalogMatIds(machine_name)))]

\* No generation is under way.
GenIdle ==
    /\ gpc = "idle"
    /\ num_lots = 0
    /\ lot_counter = 1
    /\ gen_lots = <<>>
    /\ production_data = <<>>
    /\ gen_orders = <<>>
    /\ slot = 1
    /\ order_index = 0
    /\ serial_counter = 1000
    /\ gen_batches = <<>>

-----------------------------------------------------------------------------
(* generate_supplier_scorecard, docs/traceability_examples.py:543-623.     *)
(* It reads the result of trace_forward_from_supplier: the number of       *)
(* batches that used a lot of the supplier (production_batches.count) and  *)
(* the quality issues linked to the supplier, each with its severity and   *)
(* its parts_affected.  The score is a quotient num / den of integers;     *)
(* the reported values are counted in tenths (performance_score) and in    *)
(* hundredths (defect_rate_ppm).                                           *)

\* production_batches.count of the traces the scorecard is asked for
ScoreBatchCounts == {0, 1, 2, 51}

\* the quality issues a trace may list
ScoreIssuePool ==
    [severity : {"High", "Low"}, parts_affected : {0, 1, 205}]

ScoreTraces ==
    [count  : ScoreBatchCounts,
     issues : UNION { [1..n -> ScoreIssuePool] : n \in 0..MaxIssues }]

NoTrace == [count |-> 0, issues |-> <<>>]

PartsAffectedOfIssue(issue) == issue.parts_affected

\* 563: total_parts_produced = count * 400
PartsPerBatch == 400

\* 570-576: severity_breakdown[issue["severity"]] += 1
SeverityCount(t, severity) ==
    Len(SelectSeq(t.issues, LAMBDA issue : issue.severity = severity))

\* 564-567 and 580-583: max(0, 100 - defect_rate_ppm / 1000 - High * 5)
\* as the quotient num / den.  With parts produced,
\* defect_rate_ppm / 1000 = affected * 1000 / (count * 400)
\*                        = 5 * affected / (2 * count).
PerformanceScore(t) ==
    LET affected == SumOver(t.issues, PartsAffectedOfIssue)
        high     == SeverityCount(t, "High")
        den      == IF t.count * PartsPerBatch > 0 THEN 2 * t.count ELSE 1
        num      == IF t.count * PartsPerBatch > 0
                    THEN 200 * t.count - 5 * affected - 10 * high * t.count
                    ELSE 100 - 5 * high
    IN  [num |-> Max(0, num), den |-> den]

\* 607-613: the grade of the unrounded performance_score
Grade(score) ==
    IF score.num >= 90 * score.den THEN "A"
    ELSE IF score.num >= 80 * score.den THEN "B"
    ELSE IF score.num >= 70 * score.den THEN "C"
    ELSE IF score.num >= 60 * score.den THEN "D"
    ELSE "F"

\* 614-622
Recommendation(score) ==
    IF score.num >= 90 * score.den
    THEN "Excellent supplier, maintain relationship"
    ELSE IF score.num >= 80 * score.den
    THEN "Good supplier, minor improvements needed"
    ELSE IF score.num >= 70 * score.den
    THEN "Acceptable supplier, quality improvement plan required"
    ELSE "Poor supplier, consider alternative sources"

\* 585-623.  tP and tS are the sides of the ties of round(defect_rate_ppm,
\* 2) and of round(performance_score, 1).
generate_supplier_scorecard(supplier_id, t, tP, tS) ==
    LET affected == SumOver(t.issues, PartsAffectedOfIssue)
        total_parts_produced == t.count * PartsPerBatch
        performance_score == PerformanceScore(t)
    IN  Ok("supplier_scorecard", supplier_id, NoDate, NoDate,
           [batches_produced |-> t.count,
            total_parts_produced |-> total_parts_produced,
            defect_rate_ppm |->
                IF total_parts_produced > 0
                THEN Round2(affected * (100000000 \div PartsPerBatch),
                            t.count, tP)
                ELSE 0,
            quality_issues |->
                [total |-> Len(t.issues),
                 by_severity |->
                     [High   |-> SeverityCount(t, "High"),
                      Medium |-> SeverityCount(t, "Medium"),
                      Low    |-> SeverityCount(t, "Low")],
                 parts_affected |-> affected],
            performance_score |->
                Round2(10 * performance_score.num, performance_score.den,
                       tS),
            grade |-> Grade(performance_score),
            recommendation |-> Recommendation(performance_score)])

-----------------------------------------------------------------------------
(* load_data_async, shared/data.py:134-193, with the blob client of        *)
(* shared/blob_storage.py.  A snapshot is a token: "stored-0" is what was  *)
(* saved before the calls, "gen-a" and "gen-b" are results of              *)
(* generate_production_data(), which draws from an unseeded `random` and   *)
(* stamps generated_at with datetime.now() (data.py:444-681), so two       *)
(* calls of it need not return the same snapshot.                          *)

Callers == 1..MaxCalls

\* No file at DATA_FILE, no blob in the container.
NoStored == "missing"

\* What load_data_async returns for "no snapshot".
NoSnapshot == "None"

StoredBefore == {NoStored, "stored-0"}

Generated == {"gen-a", "gen-b"}

StorageModes == {"local", "azure"}

\* Variant that answers None whenever nothing is stored (not the code:
\* data.py:157-165 generate and upload in azure mode).
LoadedWhenMissingNone(mode, fresh) == NoSnapshot

\* data.py:157-165 and 183-185: the `data` of a call that found nothing
\* stored; fresh is what generate_production_data() returns.
LoadedWhenMissing(mode, fresh) ==
    IF mode = "azure" THEN fresh ELSE NoSnapshot

\* No load is under way.
LoadIdle ==
    /\ storage_mode = "local"
    /\ stored = NoStored
    /\ lpc = [p \in Callers |-> "idle"]
    /\ exists = [p \in Callers |-> FALSE]
    /\ loaded = [p \in Callers |-> NoSnapshot]

-----------------------------------------------------------------------------
(* The memory service, shared/memory_service.py.  An id is the prefix and  *)
(* the second of the clock it was made in (INV-YYYYMMDD-HHMMSS).  The      *)
(* title of an investigation and the description of an action are the      *)
(* caller that asked for them, 0 for what was stored before the calls; a   *)
(* finding is the caller that added it.                                    *)

Writers == 1..MaxWriters

\* memory_service.py:25-31 and 34-40
generate_investigation_id(second) == <<"INV", second>>

generate_action_id(second) == <<"ACT", second>>

\* models.py:300-334
Investigation(id, title, second) ==
    [id |-> id, title |-> title, findings |-> <<>>,
     created_at |-> second, updated_at |-> second]

\* models.py:337-367
Action(id, description, second) ==
    [id |-> id, description |-> description, created_at |-> second]

\* models.py:370-386
MemoryStore(investigations, actions, second) ==
    [investigations |-> investigations, actions |-> actions,
     last_updated |-> second]

\* No memory blob is in the container (blob_exists() is False).
NoMemoryBlob == MemoryStore(<<>>, <<>>, -1)

\* The memory blob before the calls: missing, or holding an investigation
\* and an action made at second 0.
StoresBefore ==
    {NoMemoryBlob,
     MemoryStore(<<Investigation(generate_investigation_id(0), 0, 0)>>,
                 <<Action(generate_action_id(0), 0, 0)>>, 0)}

\* The ids update_investigation is asked to update.
UpdateTargets == {generate_investigation_id(0), generate_investigation_id(1)}

NoCall == [op |-> "none", id |-> <<"none", 0>>]

\* memory_service.py:63-82: what load_memory_store returns
load_memory_store(blob, mode, second) ==
    IF mode # "azure" THEN MemoryStore(<<>>, <<>>, second)
    ELSE IF blob = NoMemoryBlob THEN MemoryStore(<<>>, <<>>, second)
    ELSE blob

\* memory_service.py:181-186: the first investigation with the id, 0 when
\* there is none
FindInvestigation(m, investigation_id) ==
    FirstIndex(m.investigations, LAMBDA inv : inv.id = investigation_id)

\* memory_service.py:191-203 with updates = {"findings": finding}
ApplyFinding(m, i, finding, second) ==
    [m EXCEPT !.investigations[i].findings = Append(@, finding),
              !.investigations[i].updated_at = second]

\* No call of the memory service is under way.
MemIdle ==
    /\ memory_blob = NoMemoryBlob
    /\ now = 0
    /\ mpc = [p \in Writers |-> "idle"]
    /\ memory = [p \in Writers |-> MemoryStore(<<>>, <<>>, 0)]
    /\ made = [p \in Writers |-> NoCall]

\* No scorecard is asked for, no load and no memory call is under way.
SvcIdle ==
    /\ trace = NoTrace
    /\ LoadIdle
    /\ MemIdle

-----------------------------------------------------------------------------
(* The call aggregate_batches_to_production(production_batches, MACHINES,  *)
(* SHIFTS)                                                                 *)

NoEarlierCall == [called |-> FALSE, production |-> <<>>]

InitAgg ==
    /\ production_batches \in BatchLists
    /\ rng \in 0..MaxSeed
    /\ pc = "grouping"
    /\ idx = 1
    /\ batches_by_date_machine = <<>>
    /\ gidx = 1
    /\ production = <<>>
    /\ raised = "none"
    /\ earlier = NoEarlierCall
    /\ data = NoData
    /\ response = NoResponse
    /\ previous = NoResponse
    /\ result = NoResult
    /\ GenIdle
    /\ SvcIdle

\* One pass of the loop at data.py:308-320.
GroupBatch ==
    /\ pc = "grouping"
    /\ idx <= Len(production_batches)
    /\ LET batch == production_batches[idx]
       IN  \/ /\ batch.kind = "other"              \* 314-316: skipped
              /\ idx' = idx + 1
              /\ UNCHANGED <<batches_by_date_machine, pc, raised>>
           \/ /\ batch.kind # "other"
              /\ batch.missing \cap {"date", "machine_name"} # {}
              /\ pc' = "raised"                    \* 318-319: KeyError
              /\ raised' = "KeyError"
              /\ UNCHANGED <<batches_by_date_machine, idx>>
           \/ /\ batch.kind # "other"
              /\ batch.missing \cap {"date", "machine_name"} = {}
              /\ batches_by_date_machine' =
                     AppendBatch(batches_by_date_machine, BatchDict(batch))
              /\ idx' = idx + 1
              /\ UNCHANGED <<pc, raised>>
    /\ UNCHANGED <<production_batches, rng, gidx, production>>
    /\ UNCHANGED <<earlier, traceVars, metricsVars, genVars, svcVars>>

GroupingDone ==
    /\ pc = "grouping"
    /\ idx > Len(production_batches)
    /\ pc' = "aggregating"
    /\ UNCHANGED <<production_batches, rng, idx, batches_by_date_machine,
                   gidx, production, raised>>
    /\ UNCHANGED <<earlier, traceVars, metricsVars, genVars, svcVars>>

\* One pass of the nested loops at data.py:323-431.
AggregateGroup ==
    /\ pc = "aggregating"
    /\ gidx <= Len(FlattenGroups(batches_by_date_machine))
    /\ LET g  == FlattenGroups(batches_by_date_machine)[gidx]
           bs == g.batches
           td == TotalDowntime(bs)
       IN  \/ /\ GroupRaises(bs) # "none"
              /\ pc' = "raised"
              /\ raised' = GroupRaises(bs)
              /\ UNCHANGED <<rng, gidx, production>>
           \/ /\ GroupRaises(bs) = "none"
              /\ \E tUp \in TieChoices(TotalUptime(bs), Centi),
                    tDown \in TieChoices(td, Centi),
                    t1 \in TieChoices(FirstSplit(rng, td), Centi),
                    t2 \in TieChoices(td - FirstSplit(rng, td), Centi),
                    tRate \in TieChoices(SumOver(bs, ScrapOf) * 10000,
                                         Max(1, SumOver(bs, PartsOf))) :
                    production' =
                        (<<g.date, g.machine_name>> :>
                            RollupRecord(bs, rng, tUp, tDown, t1, t2, tRate))
                        @@ production
              /\ rng' = RngAfter(rng, td)
              /\ gidx' = gidx + 1
              /\ UNCHANGED <<pc, raised>>
    /\ UNCHANGED <<production_batches, idx, batches_by_date_machine>>
    /\ UNCHANGED <<earlier, traceVars, metricsVars, genVars, svcVars>>

\* data.py:433-441
ReturnProduction ==
    /\ pc = "aggregating"
    /\ gidx > Len(FlattenGroups(batches_by_date_machine))
    /\ pc' = "returned"
    /\ UNCHANGED <<production_batches, rng, idx, batches_by_date_machine,
                   gidx, production, raised>>
    /\ UNCHANGED <<earlier, traceVars, metricsVars, genVars, svcVars>>

\* The caller keeps the rollup and calls again with the same arguments.  The
\* module-level generator is where the first call left it.
CallAgain ==
    /\ pc = "returned"
    /\ ~earlier.called
    /\ earlier' = [called |-> TRUE, production |-> production]
    /\ pc' = "grouping"
    /\ idx' = 1
    /\ batches_by_date_machine' = <<>>
    /\ gidx' = 1
    /\ production' = <<>>
    /\ UNCHANGED <<production_batches, rng, raised>>
    /\ UNCHANGED <<traceVars, metricsVars, genVars, svcVars>>

NextAgg ==
    \/ GroupBatch
    \/ GroupingDone
    \/ AggregateGroup
    \/ ReturnProduction
    \/ CallAgain

SpecAgg == InitAgg /\ [][NextAgg]_vars

-----------------------------------------------------------------------------
(* The traceability queries on a loaded snapshot.  A query reads the       *)
(* snapshot and answers; it changes nothing else.  One request is shown    *)
(* at a time: response holds its answer until it is sent.                  *)

InitTrace ==
    /\ data \in Snapshots \cup {NoData}
    /\ response = NoResponse
    /\ previous = NoResponse
    /\ production_batches = <<>>
    /\ rng = 0
    /\ pc = "idle"
    /\ idx = 1
    /\ batches_by_date_machine = <<>>
    /\ gidx = 1
    /\ production = <<>>
    /\ raised = "none"
    /\ earlier = NoEarlierCall
    /\ result = NoResult
    /\ GenIdle
    /\ SvcIdle

QueryGetSupplier ==
    /\ response = NoResponse
    /\ \E supplier_id \in QuerySupplierIds :
          response' = GetSupplier(data, supplier_id)
    /\ UNCHANGED <<data, previous, aggVars, metricsVars, genVars, svcVars>>

\* Variant (not the code): the batch found is taken out of the snapshot.
QueryGetBatchPop ==
    /\ response = NoResponse
    /\ \E batch_id \in QueryBatchIds :
          /\ response' = GetBatch(data, batch_id)
          /\ data' = [data EXCEPT !.production_batches =
                         SelectSeq(@, LAMBDA b : b.batch_id # batch_id)]
    /\ UNCHANGED <<previous, aggVars, metricsVars, genVars, svcVars>>

QueryGetBatch ==
    /\ response = NoResponse
    /\ \E batch_id \in QueryBatchIds : response' = GetBatch(data, batch_id)
    /\ UNCHANGED <<data, previous, aggVars, metricsVars, genVars, svcVars>>

QueryGetOrder ==
    /\ response = NoResponse
    /\ \E order_id \in QueryOrderIds : response' = GetOrder(data, order_id)
    /\ UNCHANGED <<data, previous, aggVars, metricsVars, genVars, svcVars>>

QueryBackwardTrace ==
    /\ response = NoResponse
    /\ \E batch_id \in QueryBatchIds :
          response' = BackwardTrace(data, batch_id)
    /\ UNCHANGED <<data, previous, aggVars, metricsVars, genVars, svcVars>>

QueryForwardTrace ==
    /\ response = NoResponse
    /\ \E supplier_id \in QuerySupplierIds, start \in QueryDates,
          end \in QueryDates :
          response' = ForwardTrace(data, supplier_id, start, end)
    /\ UNCHANGED <<data, previous, aggVars, metricsVars, genVars, svcVars>>

QuerySupplierImpact ==
    /\ response = NoResponse
    /\ \E supplier_id \in QuerySupplierIds, start \in QueryDates,
          end \in QueryDates :
          response' = SupplierImpact(data, supplier_id, start, end)
    /\ UNCHANGED <<data, previous, aggVars, metricsVars, genVars, svcVars>>

QueryLotTrace ==
    /\ response = NoResponse
    /\ \E lot_number \in QueryLotNumbers :
          response' = LotTrace(data, lot_number)
    /\ UNCHANGED <<data, previous, aggVars, metricsVars, genVars, svcVars>>

QuerySerialTrace ==
    /\ response = NoResponse
    /\ \E serial_number \in QuerySerials :
          response' = SerialTrace(data, serial_number)
    /\ UNCHANGED <<data, previous, aggVars, metricsVars, genVars, svcVars>>

QueryListSuppliers ==
    /\ response = NoResponse
    /\ \E status \in QueryStatuses : response' = ListSuppliers(data, status)
    /\ UNCHANGED <<data, previous, aggVars, metricsVars, genVars, svcVars>>

\* Variant (not the code): the snapshot's own batch list is sorted.
QueryListBatchesInPlace ==
    /\ response = NoResponse
    /\ \E f \in ListBatchFilters, dates \in ListBatchDates :
          response' = ListBatches(data, f, dates[1], dates[2])
    /\ data' = [data EXCEPT !.production_batches =
                    StableSort(@, LAMBDA a, b : a.date > b.date)]
    /\ UNCHANGED <<previous, aggVars, metricsVars, genVars, svcVars>>

QueryListBatches ==
    /\ response = NoResponse
    /\ \E f \in ListBatchFilters, dates \in ListBatchDates :
          response' = ListBatches(data, f, dates[1], dates[2])
    /\ UNCHANGED <<data, previous, aggVars, metricsVars, genVars, svcVars>>

QueryListOrders ==
    /\ response = NoResponse
    /\ \E status \in QueryStatuses, limit \in ListLimits :
          response' = ListOrders(data, [status |-> status, limit |-> limit])
    /\ UNCHANGED <<data, previous, aggVars, metricsVars, genVars, svcVars>>

QueryGetOrderBatches ==
    /\ response = NoResponse
    /\ \E order_id \in QueryOrderIds :
          response' = GetOrderBatches(data, order_id)
    /\ UNCHANGED <<data, previous, aggVars, metricsVars, genVars, svcVars>>

\* The caller keeps the answer and asks the same query again.
RepeatQuery ==
    /\ response # NoResponse
    /\ previous = NoResponse
    /\ previous' = response
    /\ response' = Answer(data, response)
    /\ UNCHANGED <<data, aggVars, metricsVars, genVars, svcVars>>

\* The answer is sent and the handler returns.
Reply ==
    /\ response # NoResponse
    /\ response' = NoResponse
    /\ previous' = NoResponse
    /\ UNCHANGED <<data, aggVars, metricsVars, genVars, svcVars>>

NextTrace ==
    \/ QueryGetSupplier
    \/ QueryGetBatch
    \/ QueryGetOrder
    \/ QueryBackwardTrace
    \/ QueryForwardTrace
    \/ QuerySupplierImpact
    \/ QueryLotTrace
    \/ QuerySerialTrace
    \/ QueryListSuppliers
    \/ QueryListBatches
    \/ QueryListOrders
    \/ QueryGetOrderBatches
    \/ RepeatQuery
    \/ Reply

SpecTrace == InitTrace /\ [][NextTrace]_vars

-----------------------------------------------------------------------------
(* The metrics reducers on the stored rollup.  load_data_async returns the *)
(* snapshot whose production rollup the aggregation returned               *)
(* (data.py:658), and nothing when the generation failed.  One call is     *)
(* shown at a time: result holds its outcome until the caller takes it.    *)

InitMetrics ==
    /\ production_batches \in BatchLists
    /\ rng \in {0, 1}
    /\ pc = "grouping"
    /\ idx = 1
    /\ batches_by_date_machine = <<>>
    /\ gidx = 1
    /\ production = <<>>
    /\ raised = "none"
    /\ earlier = NoEarlierCall
    /\ data = NoData
    /\ response = NoResponse
    /\ previous = NoResponse
    /\ result = NoResult
    /\ GenIdle
    /\ SvcIdle

\* What load_data_async returns to a reducer.
Stored ==
    [loaded     |-> pc = "returned",
     production |-> production,
     groups     |-> FlattenGroups(batches_by_date_machine)]

CallOEE ==
    /\ pc \in {"returned", "raised"}
    /\ result = NoResult
    /\ \E range \in MetricRanges,
          machine_name \in MetricMachines, tA \in BOOLEAN, tQ \in BOOLEAN,
          tO \in BOOLEAN :
          result' = Result("calculate_oee", range[1], range[2],
                        machine_name, None,
                        calculate_oee(Stored, range[1], range[2],
                            machine_name, tA, tQ, tO))
    /\ UNCHANGED <<aggVars, traceVars, genVars, svcVars>>

CallScrapMetrics ==
    /\ pc \in {"returned", "raised"}
    /\ result = NoResult
    /\ \E range \in MetricRanges,
          machine_name \in MetricMachines, tRate \in BOOLEAN :
          result' = Result("get_scrap_metrics", range[1], range[2],
                        machine_name, None,
                        get_scrap_metrics(Stored, range[1], range[2],
                            machine_name, tRate))
    /\ UNCHANGED <<aggVars, traceVars, genVars, svcVars>>

CallQualityIssues ==
    /\ pc \in {"returned", "raised"}
    /\ result = NoResult
    /\ \E range \in MetricRanges,
          severity \in MetricSeverities, machine_name \in MetricMachines :
          result' = Result("get_quality_issues", range[1], range[2],
                        machine_name, severity,
                        get_quality_issues(Stored, range[1], range[2],
                            severity, machine_name))
    /\ UNCHANGED <<aggVars, traceVars, genVars, svcVars>>

CallDowntimeAnalysis ==
    /\ pc \in {"returned", "raised"}
    /\ result = NoResult
    /\ \E range \in MetricRanges,
          machine_name \in MetricMachines :
          result' = Result("get_downtime_analysis", range[1], range[2],
                        machine_name, None,
                        get_downtime_analysis(Stored, range[1], range[2],
                            machine_name))
    /\ UNCHANGED <<aggVars, traceVars, genVars, svcVars>>

\* The caller takes the outcome.
TakeResult ==
    /\ result # NoResult
    /\ result' = NoResult
    /\ UNCHANGED <<aggVars, traceVars, genVars, svcVars>>

NextMetrics ==
    \/ GroupBatch
    \/ GroupingDone
    \/ AggregateGroup
    \/ ReturnProduction
    \/ CallOEE
    \/ CallScrapMetrics
    \/ CallQualityIssues
    \/ CallDowntimeAnalysis
    \/ TakeResult

SpecMetrics == InitMetrics /\ [][NextMetrics]_vars

-----------------------------------------------------------------------------
(* The supplier scorecard.  trace is what trace_forward_from_supplier      *)
(* returned to generate_supplier_scorecard (traceability_examples.py:559); *)
(* response holds the scorecard until the caller has it.                   *)

InitScore ==
    /\ trace \in ScoreTraces
    /\ LoadIdle
    /\ MemIdle
    /\ GenIdle
    /\ production_batches = <<>>
    /\ rng = 0
    /\ pc = "idle"
    /\ idx = 1
    /\ batches_by_date_machine = <<>>
    /\ gidx = 1
    /\ production = <<>>
    /\ raised = "none"
    /\ earlier = NoEarlierCall
    /\ data = NoData
    /\ response = NoResponse
    /\ previous = NoResponse
    /\ result = NoResult

GenerateScorecard ==
    /\ response = NoResponse
    /\ \E tP \in BOOLEAN, tS \in BOOLEAN :
          response' = generate_supplier_scorecard("SUP-001", trace, tP, tS)
    /\ UNCHANGED <<data, previous, aggVars, metricsVars, genVars, svcVars>>

NextScore ==
    \/ GenerateScorecard
    \/ Reply

SpecScore == InitScore /\ [][NextScore]_vars

-----------------------------------------------------------------------------
(* Concurrent load_data_async calls.  A call runs alone between two of its *)
(* awaits; the steps are the awaits of data.py:134-193: blob_exists() or   *)
(* path.exists(), then upload_blob(data), download_blob() or the read of   *)
(* the file.  generate_production_data() has no await: it runs in the step *)
(* that resumes after blob_exists().  The storage calls succeed.           *)

InitLoad ==
    /\ storage_mode \in StorageModes
    /\ stored \in StoredBefore
    /\ lpc = [p \in Callers |-> "idle"]
    /\ exists = [p \in Callers |-> FALSE]
    /\ loaded = [p \in Callers |-> NoSnapshot]
    /\ trace = NoTrace
    /\ MemIdle
    /\ GenIdle
    /\ production_batches = <<>>
    /\ rng = 0
    /\ pc = "idle"
    /\ idx = 1
    /\ batches_by_date_machine = <<>>
    /\ gidx = 1
    /\ production = <<>>
    /\ raised = "none"
    /\ earlier = NoEarlierCall
    /\ data = NoData
    /\ response = NoResponse
    /\ previous = NoResponse
    /\ result = NoResult

\* data.py:148-154: the call starts and awaits blob_exists(), or, in
\* local mode, reaches path.exists() (183-184).
CallLoad(p) ==
    /\ lpc[p] = "idle"
    /\ lpc' = [lpc EXCEPT ![p] = "exists"]
    /\ UNCHANGED <<storage_mode, stored, exists, loaded>>
    /\ UNCHANGED <<aggVars, traceVars, metricsVars, genVars, trace, memVars>>

\* data.py:155-163 and 184-185: the storage answers whether the blob (the
\* file) is there.  When it is not, the azure call generates fresh data
\* and starts the upload; the local call returns None.
Exists(p) ==
    /\ lpc[p] = "exists"
    /\ exists' = [exists EXCEPT ![p] = stored # NoStored]
    /\ IF stored # NoStored
       THEN /\ lpc' = [lpc EXCEPT ![p] = "read"]
            /\ UNCHANGED loaded
       ELSE \E fresh \in Generated :
               /\ loaded' = [loaded EXCEPT
                                ![p] = LoadedWhenMissing(storage_mode, fresh)]
               /\ lpc' = [lpc EXCEPT ![p] = IF storage_mode = "azure"
                                            THEN "upload" ELSE "done"]
    /\ UNCHANGED <<storage_mode, stored>>
    /\ UNCHANGED <<aggVars, traceVars, metricsVars, genVars, trace, memVars>>

\* data.py:164-165 with blob_storage.py:193-207: upload_blob(data) with
\* overwrite=True replaces the blob; the call then returns its data.
Upload(p) ==
    /\ lpc[p] = "upload"
    /\ stored' = loaded[p]
    /\ lpc' = [lpc EXCEPT ![p] = "done"]
    /\ UNCHANGED <<storage_mode, exists, loaded>>
    /\ UNCHANGED <<aggVars, traceVars, metricsVars, genVars, trace, memVars>>

\* data.py:168-169 (download_blob) and 186-189 (the read of the file):
\* the call returns the content stored at that moment.
Read(p) ==
    /\ lpc[p] = "read"
    /\ loaded' = [loaded EXCEPT ![p] = stored]
    /\ lpc' = [lpc EXCEPT ![p] = "done"]
    /\ UNCHANGED <<storage_mode, stored, exists>>
    /\ UNCHANGED <<aggVars, traceVars, metricsVars, genVars, trace, memVars>>

NextLoad ==
    \E p \in Callers :
        \/ CallLoad(p)
        \/ Exists(p)
        \/ Upload(p)
        \/ Read(p)

SpecLoad == InitLoad /\ [][NextLoad]_vars

-----------------------------------------------------------------------------
(* Concurrent calls of the memory service.  A call runs alone between two  *)
(* of its awaits.  load_memory_store reads the blob (its blob_exists and   *)
(* download_blob are one read: the blob is never deleted); what follows,   *)
(* up to the upload of save_memory_store, has no await.  The storage calls *)
(* succeed.                                                                *)

InitMemory ==
    /\ storage_mode \in StorageModes
    /\ memory_blob \in StoresBefore
    /\ now = 1
    /\ mpc = [p \in Writers |-> "idle"]
    /\ memory = [p \in Writers |-> MemoryStore(<<>>, <<>>, 0)]
    /\ made = [p \in Writers |-> NoCall]
    /\ stored = NoStored
    /\ lpc = [p \in Callers |-> "idle"]
    /\ exists = [p \in Callers |-> FALSE]
    /\ loaded = [p \in Callers |-> NoSnapshot]
    /\ trace = NoTrace
    /\ GenIdle
    /\ production_batches = <<>>
    /\ rng = 0
    /\ pc = "idle"
    /\ idx = 1
    /\ batches_by_date_machine = <<>>
    /\ gidx = 1
    /\ production = <<>>
    /\ raised = "none"
    /\ earlier = NoEarlierCall
    /\ data = NoData
    /\ response = NoResponse
    /\ previous = NoResponse
    /\ result = NoResult

MemFrame ==
    /\ UNCHANGED <<storage_mode, stored, lpc, exists, loaded, trace>>
    /\ UNCHANGED <<aggVars, traceVars, metricsVars, genVars>>

\* memory_service.py:140-154: the investigation is built, with the id of
\* the current second, and load_memory_store is awaited.
CallSaveInvestigation(p) ==
    /\ mpc[p] = "idle"
    /\ made' = [made EXCEPT ![p] = [op |-> "save_investigation",
                                    id |-> generate_investigation_id(now)]]
    /\ mpc' = [mpc EXCEPT ![p] = "load"]
    /\ UNCHANGED <<memory_blob, now, memory>>
    /\ MemFrame

\* memory_service.py:234-246
CallLogAction(p) ==
    /\ mpc[p] = "idle"
    /\ made' = [made EXCEPT ![p] = [op |-> "log_action",
                                    id |-> generate_action_id(now)]]
    /\ mpc' = [mpc EXCEPT ![p] = "load"]
    /\ UNCHANGED <<memory_blob, now, memory>>
    /\ MemFrame

\* memory_service.py:179: update_investigation(id, {"findings": p})
CallUpdateInvestigation(p) ==
    /\ mpc[p] = "idle"
    /\ \E investigation_id \in UpdateTargets :
          made' = [made EXCEPT ![p] = [op |-> "update_investigation",
                                      id |-> investigation_id]]
    /\ mpc' = [mpc EXCEPT ![p] = "load"]
    /\ UNCHANGED <<memory_blob, now, memory>>
    /\ MemFrame

\* load_memory_store returns, and the call runs up to its next await:
\* the append of 155 or 247, or the search and the update of 181-203;
\* then save_memory_store (99-108), which returns at once outside azure
\* mode and otherwise stamps last_updated and awaits the upload.
\* update_investigation raises ValueError when the id is not found.
LoadMemory(p) ==
    /\ mpc[p] = "load"
    /\ LET m == load_memory_store(memory_blob, storage_mode, now)
           i == FindInvestigation(m, made[p].id)
           changed ==
               IF made[p].op = "save_investigation"
               THEN [m EXCEPT !.investigations =
                        Append(@, Investigation(made[p].id, p, now))]
               ELSE IF made[p].op = "log_action"
               THEN [m EXCEPT !.actions =
                        Append(@, Action(made[p].id, p, now))]
               ELSE IF i # 0 THEN ApplyFinding(m, i, p, now)
               ELSE m
       IN  IF made[p].op = "update_investigation" /\ i = 0
           THEN /\ mpc' = [mpc EXCEPT ![p] = "ValueError"]
                /\ memory' = [memory EXCEPT ![p] = m]
           ELSE IF storage_mode # "azure"
           THEN /\ mpc' = [mpc EXCEPT ![p] = "done"]
                /\ memory' = [memory EXCEPT ![p] = changed]
           ELSE /\ mpc' = [mpc EXCEPT ![p] = "upload"]
                /\ memory' = [memory EXCEPT
                                 ![p] = [changed EXCEPT !.last_updated = now]]
    /\ UNCHANGED <<memory_blob, now, made>>
    /\ MemFrame

\* memory_service.py:108 with blob_storage.py:193-207: the upload replaces
\* the blob with the call's `memory`, and the call returns.
UploadMemory(p) ==
    /\ mpc[p] = "upload"
    /\ memory_blob' = memory[p]
    /\ mpc' = [mpc EXCEPT ![p] = "done"]
    /\ UNCHANGED <<now, memory, made>>
    /\ MemFrame

\* A second goes by.
Tick ==
    /\ now < MaxClock + 1
    /\ now' = now + 1
    /\ UNCHANGED <<memory_blob, mpc, memory, made>>
    /\ MemFrame

NextMemory ==
    \/ \E p \in Writers :
          \/ CallSaveInvestigation(p)
          \/ CallLogAction(p)
          \/ CallUpdateInvestigation(p)
          \/ LoadMemory(p)
          \/ UploadMemory(p)
    \/ Tick

SpecMemory == InitMemory /\ [][NextMemory]_vars

-----------------------------------------------------------------------------
(* The generation of the lots and of the batches of a snapshot             *)

GenInputs ==
    { [production |-> p,
       orders |-> IF \E k \in DOMAIN p : k[2] = "Testing-001"
                  THEN <<>> ELSE GenOrders] : p \in GenProductions }

InitGen ==
    /\ gpc = "lots"
    /\ num_lots \in 0..MaxLots
    /\ lot_counter = 1
    /\ gen_lots = <<>>
    /\ \E input \in GenInputs :
          /\ production_data = input.production
          /\ gen_orders = input.orders
    /\ slot = 1
    /\ order_index = 0
    /\ serial_counter = 1000
    /\ gen_batches = <<>>
    /\ SvcIdle
    /\ production_batches = <<>>
    /\ rng = 0
    /\ pc = "idle"
    /\ idx = 1
    /\ batches_by_date_machine = <<>>
    /\ gidx = 1
    /\ production = <<>>
    /\ raised = "none"
    /\ earlier = NoEarlierCall
    /\ data = NoData
    /\ response = NoResponse
    /\ previous = NoResponse
    /\ result = NoResult

\* One pass of the loop at data_generator.py:283-370.
GenerateLot ==
    /\ gpc = "lots"
    /\ num_lots > 0
    /\ \E m \in 1..Len(GenMaterials) :
          LET material == GenMaterials[m]
              matching_suppliers == MatchingSuppliers(GenSuppliers, material)
          IN  IF matching_suppliers = <<>>
              THEN UNCHANGED <<gen_lots, lot_counter>>
              ELSE \E s \in 1..Len(matching_suppliers),
                      days_offset \in GenDayOffsets,
                      quantity \in QuantitySamples(material.unit),
                      status \in LotStatuses,
                      fraction \in RemainingFractions :
                      /\ gen_lots' =
                             Append(gen_lots,
                                 MakeLot(material, matching_suppliers[s],
                                         1 + days_offset, lot_counter,
                                         quantity, status, fraction))
                      /\ lot_counter' = lot_counter + 1
    /\ num_lots' = num_lots - 1
    /\ UNCHANGED <<gpc, production_data, gen_orders, slot, order_index,
                   serial_counter, gen_batches>>
    /\ UNCHANGED <<aggVars, traceVars, metricsVars, svcVars>>

\* generate_material_lots returns; generate_production_batches starts
\* (data.py:601-638).
LotsDone ==
    /\ gpc = "lots"
    /\ num_lots = 0
    /\ gpc' = "batches"
    /\ UNCHANGED <<num_lots, lot_counter, gen_lots, production_data,
                   gen_orders, slot, order_index, serial_counter, gen_batches>>
    /\ UNCHANGED <<aggVars, traceVars, metricsVars, svcVars>>

\* One pass of the loop over the shifts, data_generator.py:676-856: the
\* one or two batches of a shift.
GenerateShift ==
    /\ gpc = "batches"
    /\ slot <= Len(ShiftSlots(production_data))
    /\ \E slot_ \in {ShiftSlots(production_data)[slot]} :
       LET shift_parts == slot_.shift_data.parts_produced
           shift_scrap == slot_.shift_data.scrap_parts
           step        == IF AvailableOrders(gen_orders) = <<>> THEN 0 ELSE 1
           draws       == BatchDraws(gen_lots, slot_.machine.name)
       IN  \/ \E d \in draws :
                 \* num_batches = 1
                 \E b \in {MakeBatch(gen_lots, gen_orders, slot_, 0,
                                shift_parts, shift_scrap, order_index,
                                serial_counter, d)} :
                     /\ gen_batches' =
                            gen_batches \o SelectSeq(<<b>>, ValidBatch)
                     /\ order_index' = order_index + step
                     /\ serial_counter' = NextSerialCounter(b.serial_end)
           \/ \E d0 \in draws, d1 \in draws :
                 \* num_batches = 2
                 LET parts0 == shift_parts \div 2
                     scrap0 == shift_scrap \div 2
                 IN  \E b0 \in {MakeBatch(gen_lots, gen_orders, slot_, 0,
                                    parts0, scrap0, order_index,
                                    serial_counter, d0)} :
                     \E b1 \in {MakeBatch(gen_lots, gen_orders, slot_, 1,
                                    shift_parts - parts0,
                                    shift_scrap - scrap0,
                                    order_index + step,
                                    NextSerialCounter(b0.serial_end), d1)} :
                         /\ gen_batches' =
                                gen_batches
                                \o SelectSeq(<<b0, b1>>, ValidBatch)
                         /\ order_index' = order_index + 2 * step
                         /\ serial_counter' = NextSerialCounter(b1.serial_end)
    /\ slot' = slot + 1
    /\ UNCHANGED <<gpc, num_lots, lot_counter, gen_lots,
                   production_data, gen_orders>>
    /\ UNCHANGED <<aggVars, traceVars, metricsVars, svcVars>>

\* data_generator.py:858-859
BatchesDone ==
    /\ gpc = "batches"
    /\ slot > Len(ShiftSlots(production_data))
    /\ gpc' = "done"
    /\ UNCHANGED <<num_lots, lot_counter, gen_lots, production_data,
                   gen_orders, slot, order_index, serial_counter, gen_batches>>
    /\ UNCHANGED <<aggVars, traceVars, metricsVars, svcVars>>

NextGen ==
    \/ GenerateLot
    \/ LotsDone
    \/ GenerateShift
    \/ BatchesDone

SpecGen == InitGen /\ [][NextGen]_vars

-----------------------------------------------------------------------------
(* All engines together: the aggregation of a batch list, the queries on   *)
(* a loaded snapshot and the reducers on the stored rollup, in any order.  *)
(* A query and a reducer are not shown in flight at the same time.         *)

EngineBatchLists == {bs \in BatchLists : Len(bs) <= 1}

EngineSnapshots ==
    { d \in Snapshots :
        /\ d.production_batches \in
               { WithTraceIds(<<TraceBase>>),
                 WithTraceIds(<<TraceBase, [TraceBase EXCEPT !.date = 3]>>) }
        /\ d.material_lots[1].received_date = 1
        /\ d.material_lots[2].supplier_id = "SUP-002" }

InitEngine ==
    /\ production_batches \in EngineBatchLists
    /\ rng = 1
    /\ pc = "grouping"
    /\ idx = 1
    /\ batches_by_date_machine = <<>>
    /\ gidx = 1
    /\ production = <<>>
    /\ raised = "none"
    /\ earlier = NoEarlierCall
    /\ data \in EngineSnapshots
    /\ response = NoResponse
    /\ previous = NoResponse
    /\ result = NoResult
    /\ GenIdle
    /\ SvcIdle

NextEngine ==
    \/ NextAgg
    \/ result = NoResult /\ QueryGetSupplier
    \/ result = NoResult /\ QueryGetBatch
    \/ result = NoResult /\ QueryGetOrder
    \/ result = NoResult /\ QueryBackwardTrace
    \/ result = NoResult /\ QueryForwardTrace
    \/ result = NoResult /\ QuerySupplierImpact
    \/ result = NoResult /\ QueryLotTrace
    \/ result = NoResult /\ QuerySerialTrace
    \/ result = NoResult /\ QueryListSuppliers
    \/ result = NoResult /\ QueryListBatches
    \/ result = NoResult /\ QueryListOrders
    \/ result = NoResult /\ QueryGetOrderBatches
    \/ result = NoResult /\ RepeatQuery
    \/ result = NoResult /\ Reply
    \/ response = NoResponse /\ CallOEE
    \/ response = NoResponse /\ CallScrapMetrics
    \/ response = NoResponse /\ CallQualityIssues
    \/ response = NoResponse /\ CallDowntimeAnalysis
    \/ response = NoResponse /\ TakeResult

SpecEngine == InitEngine /\ [][NextEngine]_vars

-----------------------------------------------------------------------------
(* Properties of the aggregation, stated on the input list and the rollup  *)
(* without the intermediate grouping.                                      *)

Abs(x) == IF x < 0 THEN -x ELSE x

RECURSIVE SetSum(_, _)
SetSum(f, S) ==
    IF S = {} THEN 0
    ELSE LET x == CHOOSE y \in S : TRUE IN f[x] + SetSum(f, S \ {x})

\* Positions of the input elements that are batches (dicts or models).
ValidIdx == {i \in 1..Len(production_batches) :
                production_batches[i].kind # "other"}

\* Positions of the batches of the group (d, m).
GroupIdx(d, m) == {i \in ValidIdx : /\ production_batches[i].date = d
                                    /\ production_batches[i].machine_name = m}

InputParts == [i \in 1..Len(production_batches) |->
                  production_batches[i].parts_produced]
InputGood  == [i \in 1..Len(production_batches) |->
                  production_batches[i].good_parts]
InputScrap == [i \in 1..Len(production_batches) |->
                  production_batches[i].scrap_parts]

\* Uptime a batch stands for: its duration when present and > 0, else 3.0 h.
InputUptime == [i \in 1..Len(production_batches) |->
                  LET b == production_batches[i]
                  IN  IF b.durKind = "num" /\ b.duration_hours > 0
                      THEN b.duration_hours ELSE 3 * Hour]

GroupUptime(k) == SetSum(InputUptime, GroupIdx(k[1], k[2]))

RECURSIVE SumDurations(_)
SumDurations(evs) ==
    IF evs = <<>> THEN 0
    ELSE Head(evs).duration_hours + SumDurations(Tail(evs))

\* C1: for every (date, machine_name) group of the input the rollup record's
\* parts_produced, good_parts and scrap_parts are the sums over exactly the
\* batches of that group, and scrap_rate is scrap/parts x 100 rounded to the
\* nearest hundredth, 0 when parts_produced is 0; a returned rollup has a
\* record for every group of the input.
C1_AggregationTotals ==
    /\ \A k \in DOMAIN production :
          LET G == GroupIdx(k[1], k[2])
              r == production[k]
              p == SetSum(InputParts, G)
              s == SetSum(InputScrap, G)
          IN  /\ G # {}
              /\ r.parts_produced = p
              /\ r.good_parts = SetSum(InputGood, G)
              /\ r.scrap_parts = s
              /\ p = 0 => r.scrap_rate = 0
              /\ p > 0 => 2 * Abs(r.scrap_rate * p - s * 10000) <= p
    /\ pc = "returned" =>
          \A i \in ValidIdx :
              <<production_batches[i].date,
                production_batches[i].machine_name>> \in DOMAIN production

\* Witness of C1: a returned rollup with the record of two batches of 100 and
\* 120 parts, 5 and 3 scrap: 220 parts, 8 scrap, rate 3.64.
C1_Witness ==
    /\ pc = "returned"
    /\ \E k \in DOMAIN production :
          /\ Cardinality(GroupIdx(k[1], k[2])) = 2
          /\ production[k].parts_produced = 220
          /\ production[k].scrap_parts = 8
          /\ production[k].scrap_rate = 364

C11_FallbackUptime ==
    /\ (\A i \in ValidIdx :
           /\ production_batches[i].missing = {}
           /\ production_batches[i].durKind \in {"absent", "none", "num"})
          => pc # "raised"
    /\ \A k \in DOMAIN production :
          2 * Abs(production[k].uptime_hours * Centi - GroupUptime(k))
              <= Centi

\* Positions of the batches of group k that name the shift.
ShiftIdx(k, name) ==
    {i \in GroupIdx(k[1], k[2]) : production_batches[i].shift_name = name}

ReferenceShifts == {ShiftNames[i] : i \in 1..Len(ShiftNames)}

\* C12 as stated: in every record a reference shift with zero parts_produced
\* has a zero-filled shift record (parts, good, scrap, uptime and downtime
\* all 0).
C12_ZeroFilledShift ==
    \A k \in DOMAIN production : \A name \in ReferenceShifts :
        LET r == production[k].shifts[name]
        IN  r.parts_produced = 0 =>
               r = [parts_produced |-> 0, good_parts |-> 0,
                    scrap_parts |-> 0, uptime_hours |-> 0,
                    downtime_hours |-> 0]

\* C12 amended: every record has a shift record for each reference shift.
\* For a shift none of the group's batches names it is zero-filled except
\* for downtime_hours, which is the 8.0 planned hours of the shift; for a
\* shift whose batches produced zero parts, parts_produced is 0, uptime_hours
\* is the uptime of those batches and downtime_hours is
\* max(0, 8.0 - uptime_hours).
C12_IdleShiftRecord ==
    \A k \in DOMAIN production :
        /\ DOMAIN production[k].shifts = ReferenceShifts
        /\ \A name \in ReferenceShifts :
              LET r  == production[k].shifts[name]
                  S  == ShiftIdx(k, name)
                  up == SetSum(InputUptime, S)
              IN  /\ S = {} =>
                       r = [parts_produced |-> 0, good_parts |-> 0,
                            scrap_parts |-> 0, uptime_hours |-> 0,
                            downtime_hours |-> 8 * Hour]
                  /\ SetSum(InputParts, S) = 0 =>
                       /\ r.parts_produced = 0
                       /\ r.uptime_hours = up
                       /\ r.downtime_hours = Max(0, 8 * Hour - up)

\* Witness of C12: a returned record whose Day shift produced parts and
\* whose Night shift, named by no batch, carries 8 hours of downtime.
C12_Witness ==
    /\ pc = "returned"
    /\ \E k \in DOMAIN production :
          /\ ShiftIdx(k, "Night") = {}
          /\ production[k].shifts["Day"].parts_produced > 0
          /\ production[k].shifts["Night"].parts_produced = 0
          /\ production[k].shifts["Night"].downtime_hours = 8 * Hour

\* C13: the batch_id of every input batch appears exactly once in the whole
\* returned rollup, in the batches list of the record of its own
\* (date, machine_name), and every batches list keeps the input order
\* (batch_id is the position in the input, so the list is increasing).
C13_BatchIdsOnceInOrder ==
    /\ \A k \in DOMAIN production :
          LET bl == production[k].batches
          IN  /\ {bl[j] : j \in 1..Len(bl)} = GroupIdx(k[1], k[2])
              /\ Len(bl) = Cardinality(GroupIdx(k[1], k[2]))
              /\ \A j \in 1..(Len(bl) - 1) : bl[j] < bl[j + 1]
    /\ pc = "returned" =>
          \A i \in ValidIdx :
              Cardinality({k \in DOMAIN production :
                  \E j \in 1..Len(production[k].batches) :
                      production[k].batches[j] = i}) = 1

\* Witness of C13: a returned rollup whose one record lists batches 1, 2.
C13_Witness ==
    /\ pc = "returned"
    /\ \E k \in DOMAIN production : production[k].batches = <<1, 2>>

\* C14 as stated: aggregating the same batches with the same reference lists
\* always yields the same rollup, whatever was called before.
C14_SameRollupOnEveryCall ==
    (pc = "returned" /\ earlier.called) => production = earlier.production

\* The record without its downtime events.
WithoutEvents(r) == [r EXCEPT !.downtime_events = <<>>]

\* C14 amended: two calls with the same batches and reference lists return
\* rollups with the same (date, machine) keys whose records agree in every
\* field except downtime_events; the number of events, their reasons and
\* the split of the downtime between them follow the state of the
\* process-wide random generator, which every call advances.
C14_SameRollupButEvents ==
    (pc = "returned" /\ earlier.called) =>
        /\ DOMAIN production = DOMAIN earlier.production
        /\ \A k \in DOMAIN production :
              WithoutEvents(production[k])
                  = WithoutEvents(earlier.production[k])

\* Witness of C14: the second call returned records equal to those of the
\* first call but for the downtime events, which differ.
C14_Witness ==
    /\ pc = "returned"
    /\ earlier.called
    /\ \E k \in DOMAIN production :
          /\ WithoutEvents(production[k])
                 = WithoutEvents(earlier.production[k])
          /\ production[k].downtime_events
                 # earlier.production[k].downtime_events

-----------------------------------------------------------------------------
(* Properties of the traceability queries, stated on the snapshot and the  *)
(* answer.                                                                 *)

SnapshotBatch(batch_id) ==
    data.production_batches[
        CHOOSE i \in 1..Len(data.production_batches) :
            data.production_batches[i].batch_id = batch_id]

BatchIds == {data.production_batches[i].batch_id :
                i \in 1..Len(data.production_batches)}

SupplierIdSet == {data.suppliers[i].id : i \in 1..Len(data.suppliers)}

LotNumberSet == {data.material_lots[i].lot_number :
                    i \in 1..Len(data.material_lots)}

MaterialIdSet == {data.materials_catalog[i].id :
                     i \in 1..Len(data.materials_catalog)}

\* The lot numbers of supplier s received within [start, end].
LotsInRange(s, start, end) ==
    {l.lot_number : l \in {x \in Range(data.material_lots) :
        /\ x.supplier_id = s
        /\ start = NoDate \/ x.received_date >= start
        /\ end = NoDate \/ x.received_date <= end}}

\* The positions of the batches dated within [start, end] that consume at
\* least one lot of lots.
BatchesInRange(lots, start, end) ==
    {i \in 1..Len(data.production_batches) :
        LET b == data.production_batches[i]
        IN  /\ start = NoDate \/ b.date >= start
            /\ end = NoDate \/ b.date <= end
            /\ \E j \in 1..Len(b.materials_consumed) :
                  b.materials_consumed[j].lot_number \in lots}

\* C4: if backward_trace(b) lists supplier S (some usage of b resolves to a
\* lot of S), then forward_trace(S) with any date range containing b.date
\* lists b, and backward_trace(b) does list S.
C4_TraceInverseConsistency ==
    \A i \in 1..Len(data.production_batches) :
      LET b == data.production_batches[i]
      IN  \A s \in SupplierIdSet :
            (\E j \in 1..Len(b.materials_consumed), l \in
                    Range(data.material_lots) :
                /\ l.lot_number = b.materials_consumed[j].lot_number
                /\ l.supplier_id = s)
            =>
            /\ (response.op = "backward_trace" /\ response.key = b.batch_id)
                  => /\ response.status = "ok"
                     /\ s \in Range(response.body.suppliers)
            /\ (/\ response.op = "forward_trace"
                /\ response.key = s
                /\ response.start_date = NoDate
                      \/ response.start_date <= b.date
                /\ response.end_date = NoDate
                      \/ b.date <= response.end_date)
                  => /\ response.status = "ok"
                     /\ \E k \in 1..Len(response.body.affected_batches) :
                           response.body.affected_batches[k].batch_id
                               = b.batch_id

\* C5: the materials_trace of backward_trace has exactly one entry for each
\* MaterialUsage of the batch, in order, and materials_count is the number
\* of MaterialUsage records.
C5_OneEntryPerUsage ==
    (response.op = "backward_trace" /\ response.status = "ok")
    => LET usages == SnapshotBatch(response.key).materials_consumed
           mt     == response.body.materials_trace
       IN  /\ Len(mt) = Len(usages)
           /\ response.body.supply_chain_summary.materials_count
                  = Len(usages)
           /\ \A j \in 1..Len(usages) :
                 /\ mt[j].material_id = usages[j].material_id
                 /\ mt[j].lot_number = usages[j].lot_number

\* C6: whatever lot_number, material_id or supplier_id of the batch's
\* usages is dangling, backward_trace of an existing batch succeeds, and
\* every usage still has its entry, with only the enrichment that does not
\* resolve left out (null).
C6_DanglingOmitsOnlyEnrichment ==
    (response.op = "backward_trace" /\ response.key \in BatchIds)
    => /\ response.status = "ok"
       /\ \A u \in Range(SnapshotBatch(response.key).materials_consumed) :
             \E e \in Range(response.body.materials_trace) :
                /\ e.material_id = u.material_id
                /\ e.lot_number = u.lot_number
                /\ u.material_id \notin MaterialIdSet
                      => e.material_spec = None
                /\ (u.lot_number \notin LotNumberSet
                      \/ e.supplier_id \notin SupplierIdSet)
                      => e.supplier = None

\* C7: forward_trace lists each batch that is dated in the range and
\* consumes at least one lot of the supplier received in the range exactly
\* once, however many such lots it consumes; batches_affected is their
\* number, total_defects the sum of their scrap_parts, and
\* estimated_cost_impact = total_defects * 50.
C7_ForwardCountsEachBatchOnce ==
    (response.op = "forward_trace" /\ response.status = "ok")
    => LET lots == LotsInRange(response.key, response.start_date,
                               response.end_date)
           hit  == BatchesInRange(lots, response.start_date,
                                  response.end_date)
           ab   == response.body.affected_batches
           sm   == response.body.impact_summary
       IN  /\ {ab[k].batch_id : k \in 1..Len(ab)}
                  = {data.production_batches[i].batch_id : i \in hit}
           /\ Len(ab) = Cardinality(hit)
           /\ sm.batches_affected = Cardinality(hit)
           /\ sm.total_defects
                  = SetSum([i \in hit |->
                               data.production_batches[i].scrap_parts], hit)
           /\ sm.estimated_cost_impact = sm.total_defects * 50

\* Two batches, each consuming two lots of the supplier: two batches and
\* their 4 scrap parts are reported, $200.
C7_Witness ==
    /\ response.op = "forward_trace"
    /\ response.status = "ok"
    /\ Len(data.production_batches) = 2
    /\ \A i \in 1..2 :
          /\ Len(data.production_batches[i].materials_consumed) = 2
          /\ \A j \in 1..2 :
                data.production_batches[i].materials_consumed[j].lot_number
                    \in LotsInRange(response.key, response.start_date,
                                    response.end_date)
    /\ response.body.impact_summary.batches_affected = 2
    /\ response.body.impact_summary.total_defects = 4
    /\ response.body.impact_summary.estimated_cost_impact = 200

\* The key of the answered query is absent from the snapshot.
KeyAbsent ==
    CASE response.op \in {"get_supplier", "forward_trace", "supplier_impact"}
            -> response.key \notin SupplierIdSet
      [] response.op \in {"get_batch", "backward_trace"}
            -> response.key \notin BatchIds
      [] response.op = "get_order"
            -> response.key \notin {data.orders[i].id :
                                       i \in 1..Len(data.orders)}
      [] response.op = "lot_trace"
            -> response.key \notin LotNumberSet
      [] response.op = "serial_trace"
            -> \A i \in 1..Len(data.production_batches) :
                  \/ response.key < data.production_batches[i].serial_start
                  \/ response.key > data.production_batches[i].serial_end
      [] OTHER -> FALSE

C9_EmptyResultIsSuccess ==
    (/\ response.op \in {"forward_trace", "supplier_impact"}
     /\ data.loaded
     /\ response.key \in SupplierIdSet)
    => LET lots == LotsInRange(response.key, response.start_date,
                               response.end_date)
           hit  == BatchesInRange(lots, response.start_date,
                                  response.end_date)
       IN  hit = {}
           => /\ response.status = "ok"
              /\ response.body.affected_batches = <<>>
              /\ response.body.quality_issues = <<>>
              /\ response.body.material_lots_supplied = Cardinality(lots)
              /\ IF response.op = "forward_trace"
                 THEN /\ response.body.affected_orders = <<>>
                      /\ response.body.impact_summary
                            = [batches_affected |-> 0,
                               quality_issues_count |-> 0,
                               total_defects |-> 0,
                               orders_affected |-> 0,
                               estimated_cost_impact |-> 0]
                 ELSE /\ response.body.affected_batches_count = 0
                      /\ response.body.quality_issues_count = 0
                      /\ response.body.total_defects = 0
                      /\ response.body.estimated_cost_impact = 0

\* supplier_impact of SUP-001 for a date range after every lot and batch,
\* on a snapshot where a batch consumes a lot of SUP-001.
C9_Witness ==
    /\ response.op = "supplier_impact"
    /\ response.key = "SUP-001"
    /\ response.start_date = 3
    /\ response.status = "ok"
    /\ response.body.material_lots_supplied = 0
    /\ response.body.affected_batches_count = 0
    /\ BatchesInRange(LotsInRange("SUP-001", NoDate, NoDate),
                      NoDate, NoDate) # {}
    /\ \A i \in 1..Len(data.production_batches) :
          data.production_batches[i].date < 3

-----------------------------------------------------------------------------
(* Properties of the metrics reducers, stated on the call and its outcome  *)

\* A date argument that does not match the YYYY-MM-DD shape.
Misshapen(date_str) == ~validate_date_format(date_str)

\* C20: every metrics reducer called with a start or end date that does
\* not match the YYYY-MM-DD shape fails, and the error its caller receives
\* is the date-format error carrying the offending value.
C20_MisshapenDateIsDateFormatError ==
    (/\ result # NoResult
     /\ Misshapen(result.start_date) \/ Misshapen(result.end_date))
    => /\ result.outcome.status = "raised"
       /\ result.outcome.exc = "DateValidationError"

-----------------------------------------------------------------------------
(* get_supplier_impact against forward_trace *)

\* C22: for every snapshot, supplier id and optional date range,
\* get_supplier_impact and forward_trace agree: both answer not found
\* (with the same detail) for the same inputs, and otherwise they report
\* the same number of supplier lots, of affected batches, of quality
\* issues, the same total_defects and the same estimated_cost_impact.
C22_ImpactAgreesWithForwardTrace ==
    response.op \in {"forward_trace", "supplier_impact"} =>
        LET f == ForwardTrace(data, response.key, response.start_date,
                              response.end_date)
            i == SupplierImpact(data, response.key, response.start_date,
                                response.end_date)
        IN  /\ response = IF response.op = "forward_trace" THEN f ELSE i
            /\ f.status = i.status
            /\ f.detail = i.detail
            /\ f.status = "ok" =>
                  /\ f.body.material_lots_supplied
                        = i.body.material_lots_supplied
                  /\ f.body.impact_summary.batches_affected
                        = i.body.affected_batches_count
                  /\ f.body.impact_summary.quality_issues_count
                        = i.body.quality_issues_count
                  /\ f.body.impact_summary.total_defects
                        = i.body.total_defects
                  /\ f.body.impact_summary.estimated_cost_impact
                        = i.body.estimated_cost_impact

\* Witness of C22: a supplier impact over a date range that leaves out
\* one of the supplier's lots and still has an affected batch with scrap.
C22_Witness ==
    /\ response.op = "supplier_impact"
    /\ response.status = "ok"
    /\ response.start_date # NoDate
    /\ response.body.material_lots_supplied
          < Len(ImpactLotsUndated(data, response.key, NoDate, NoDate))
    /\ response.body.affected_batches_count > 0
    /\ response.body.total_defects > 0

-----------------------------------------------------------------------------
(* trace_serial_number *)

\* The batches of the snapshot whose inclusive serial range holds n.
Holders(d, n) ==
    {i \in 1..Len(d.production_batches) :
        /\ d.production_batches[i].serial_start <= n
        /\ n <= d.production_batches[i].serial_end}

\* C23: trace_serial_number(n) succeeds exactly when some batch's
\* inclusive range [serial_start, serial_end] contains n, both boundary
\* values included; the batch it reports is one whose range contains n;
\* and it fails with the not-found error naming n when no range has n.
C23_SerialTraceFindsHolder ==
    response.op = "serial_trace" =>
        LET holders == Holders(data, response.key)
        IN  /\ response.status = "ok" <=> holders # {}
            /\ response.status = "ok" =>
                  /\ response.body.serial_number = response.key
                  /\ \E i \in holders :
                        data.production_batches[i].batch_id
                            = response.body.production.batch_id
            /\ holders = {} =>
                  /\ response.status = "not_found"
                  /\ response.detail = "key"

\* Witness of C23: the serial asked for is the last one of the range of
\* the batch reported, in a snapshot of two batches.
C23_Witness ==
    /\ response.op = "serial_trace"
    /\ response.status = "ok"
    /\ Len(data.production_batches) = 2
    /\ \E i \in Holders(data, response.key) :
          /\ data.production_batches[i].serial_end = response.key
          /\ data.production_batches[i].batch_id
                = response.body.production.batch_id

-----------------------------------------------------------------------------
(* The supplier scorecard *)

\* The band of a score counted in tenths: A from 90, B from 80, C from 70,
\* D from 60, else F.
Band(score) ==
    IF score >= 900 THEN "A"
    ELSE IF score >= 800 THEN "B"
    ELSE IF score >= 700 THEN "C"
    ELSE IF score >= 600 THEN "D"
    ELSE "F"

\* C24: in every supplier scorecard the performance_score lies in
\* [0, 100] and the grade is the band of the reported performance_score.
C24_GradeIsBandOfReportedScore ==
    response.op = "supplier_scorecard" =>
        /\ response.body.performance_score \in 0..1000
        /\ response.body.grade = Band(response.body.performance_score)

-----------------------------------------------------------------------------
(* calculate_oee on the rollup of the aggregation *)

\* The rollup records a calculate_oee call visits.
Visited ==
    IF Stored.loaded
          /\ DateRangeRaises(result.start_date, result.end_date) = NoError
    THEN MachineRecords(Stored.production, Stored.groups,
             ValidDates(Stored.production,
                        get_date_range(result.start_date, result.end_date)),
             result.machine_name)
    ELSE <<>>

\* C26: for every rollup the aggregation produces, calculate_oee over a
\* date range that contains rollup entries returns an OEEMetrics result
\* whose availability, quality and oee each lie in [0, 1].
C26_OEEWithinUnitInterval ==
    (result.op = "calculate_oee" /\ Visited # <<>>)
    => /\ result.outcome.status = "ok"
       /\ result.outcome.body.availability \in 0..1000
       /\ result.outcome.body.quality \in 0..1000
       /\ result.outcome.body.oee \in 0..1000

-----------------------------------------------------------------------------
(* The snapshot loader *)

\* The calls that have returned after finding nothing stored.
FoundNothing == {p \in Callers : lpc[p] = "done" /\ ~exists[p]}

C30_ConcurrentLoadsAgree ==
    (/\ storage_mode = "azure"
     /\ \A p \in Callers : lpc[p] = "done" /\ ~exists[p])
    => \A p \in Callers :
          /\ loaded[p] = stored
          /\ \A q \in Callers : loaded[p] = loaded[q]

-----------------------------------------------------------------------------
(* The memory service *)

\* What call p created or applied is in the persisted store.
Persisted(p) ==
    /\ memory_blob # NoMemoryBlob
    /\ \/ /\ made[p].op = "save_investigation"
          /\ \E i \in 1..Len(memory_blob.investigations) :
                /\ memory_blob.investigations[i].id = made[p].id
                /\ memory_blob.investigations[i].title = p
       \/ /\ made[p].op = "log_action"
          /\ \E i \in 1..Len(memory_blob.actions) :
                /\ memory_blob.actions[i].id = made[p].id
                /\ memory_blob.actions[i].description = p
       \/ /\ made[p].op = "update_investigation"
          /\ \E i \in 1..Len(memory_blob.investigations) :
                /\ memory_blob.investigations[i].id = made[p].id
                /\ p \in Range(memory_blob.investigations[i].findings)

\* C28: in azure storage mode, once concurrent save_investigation,
\* log_action and update_investigation calls have all completed
\* successfully, the persisted MemoryStore contains every investigation
\* and action they created and every update they applied.
C28_NoCompletedWriteLost ==
    (/\ storage_mode = "azure"
     /\ \A p \in Writers : mpc[p] = "done")
    => \A p \in Writers : Persisted(p)

\* C29: the investigations of the persisted store have pairwise
\* different ids, and so have its actions, so that an id addresses
\* exactly one investigation.
C29_IdsUnique ==
    /\ \A i, j \in 1..Len(memory_blob.investigations) :
          i # j => memory_blob.investigations[i].id
                      # memory_blob.investigations[j].id
    /\ \A i, j \in 1..Len(memory_blob.actions) :
          i # j => memory_blob.actions[i].id # memory_blob.actions[j].id

-----------------------------------------------------------------------------
(* Date ranges of the metrics reducers *)

\* A well-formed range whose start is later than its end.
Reversed(start_date, end_date) ==
    /\ start_date.kind = "iso"
    /\ end_date.kind = "iso"
    /\ start_date.day > end_date.day

\* C21: a metrics reducer called with a well-formed start date later than
\* the end date fails, and its caller receives an InvalidDateRange error.
C21_ReversedRangeIsInvalidDateRange ==
    (/\ result # NoResult
     /\ Reversed(result.start_date, result.end_date))
    => /\ result.outcome.status = "raised"
       /\ result.outcome.exc = "InvalidDateRange"

-----------------------------------------------------------------------------
(* Frame of the engines *)

\* C16: no engine operation modifies what it reads.  Every step of the
\* aggregation, of a query and of a reducer leaves the snapshot (its
\* suppliers, materials, lots, batches and orders, in their order) and the
\* batch list passed to the aggregation as they were, and a reducer leaves
\* the rollup it reads as it was.
C16_SnapshotUnchanged ==
    [][/\ data' = data
       /\ production_batches' = production_batches
       /\ result' # result => production' = production]_vars

\* The aggregation has returned twice, and a list query has answered from
\* a snapshot whose batch list is not in the order of the answer.
C16_Witness ==
    /\ pc = "returned"
    /\ earlier.called
    /\ production_batches # <<>>
    /\ response.op = "list_batches"
    /\ Len(response.body) = 2
    /\ response.body[1] = data.production_batches[2]

-----------------------------------------------------------------------------
(* Properties of the generator, stated on the lots and batches generated   *)

\* The inclusive serial ranges of two batches have a serial in common.
Overlap(a, b) ==
    /\ a.serial_start <= b.serial_end
    /\ b.serial_start <= a.serial_end

\* C17: the inclusive serial ranges [serial_start, serial_end] of any two
\* distinct batches of generate_production_batches do not overlap.
C17_SerialRangesDisjoint ==
    \A i, j \in 1..Len(gen_batches) :
        i # j => ~Overlap(gen_batches[i], gen_batches[j])

\* Four batches of two shifts are generated, one of them without parts.
C17_Witness ==
    /\ gpc = "done"
    /\ Len(gen_batches) = 4
    /\ \E i \in 1..4 : gen_batches[i].parts_produced = 0
    /\ \E i \in 1..4 : gen_batches[i].parts_produced > 1

\* C18: every lot of generate_material_lots has
\* 0 <= quantity_remaining <= quantity_received, and quantity_remaining = 0
\* whenever its status is Depleted.
C18_LotQuantities ==
    \A i \in 1..Len(gen_lots) :
        /\ 0 <= gen_lots[i].quantity_remaining
        /\ gen_lots[i].quantity_remaining <= gen_lots[i].quantity_received
        /\ gen_lots[i].status = "Depleted"
              => gen_lots[i].quantity_remaining = 0

\* A depleted lot and a lot in use that is partly consumed are generated.
C18_Witness ==
    /\ \E i \in 1..Len(gen_lots) :
          /\ gen_lots[i].status = "Depleted"
          /\ gen_lots[i].quantity_received > 0
    /\ \E i \in 1..Len(gen_lots) :
          /\ gen_lots[i].status = "InUse"
          /\ gen_lots[i].quantity_remaining < gen_lots[i].quantity_received

GenLotNumbers == {gen_lots[i].lot_number : i \in 1..Len(gen_lots)}
GenSupplierIds == {GenSuppliers[i].id : i \in 1..Len(GenSuppliers)}
GenMaterialIds == {GenMaterials[i].id : i \in 1..Len(GenMaterials)}
GenOrderIds == {gen_orders[i].id : i \in 1..Len(gen_orders)}

\* C19: in the snapshot of the generator every reference resolves: the
\* lot_number of every material usage and of every quality issue is the
\* number of a lot, every supplier_id is the id of a supplier, every
\* material_id is in the catalogue, and every batch's order_id that is
\* not null is the id of an order.
C19_ReferencesResolve ==
    /\ \A i \in 1..Len(gen_lots) :
          /\ gen_lots[i].supplier_id \in GenSupplierIds
          /\ gen_lots[i].material_id \in GenMaterialIds
    /\ \A i \in 1..Len(gen_batches) :
          LET b == gen_batches[i]
          IN  /\ b.order_id # None => b.order_id \in GenOrderIds
              /\ \A k \in 1..Len(b.materials_consumed) :
                    /\ b.materials_consumed[k].lot_number \in GenLotNumbers
                    /\ b.materials_consumed[k].material_id
                          \in GenMaterialIds
              /\ \A k \in 1..Len(b.quality_issues) :
                    LET q == b.quality_issues[k]
                    IN  /\ q.lot_number # NoLot
                              => q.lot_number \in GenLotNumbers
                        /\ q.supplier_id # None
                              => q.supplier_id \in GenSupplierIds
                        /\ q.material_id # None
                              => q.material_id \in GenMaterialIds

\* The generation is over; a batch is assigned to an order, consumes a
\* lot, and carries a quality issue linked to that lot and its supplier.
C19_Witness ==
    /\ gpc = "done"
    /\ \E i \in 1..Len(gen_batches) :
          LET b == gen_batches[i]
          IN  /\ b.order_id # None
              /\ Len(b.materials_consumed) = 1
              /\ \E k \in 1..Len(b.quality_issues) :
                    /\ b.quality_issues[k].lot_number
                          = b.materials_consumed[1].lot_number
                    /\ b.quality_issues[k].supplier_id # None

\* The generated batches of a date and machine, in order.
BatchesOf(key) ==
    SelectSeq(gen_batches,
              LAMBDA b : b.date = key[1] /\ b.machine_name = key[2])

\* C27: once generate_production_batches has returned, the quality issues
\* over the generated batches of a (date, machine) are as many as the
\* issues of production[date][machine]; the rollup record the aggregation
\* makes of those batches lists the concatenation of their issues
\* (data.py:354-361), so it has that same number.
C27_IssuesMovedOnce ==
    gpc = "done" =>
        \A key \in DOMAIN production_data :
            Len(ConcatIssues(BatchesOf(key)))
                = Len(production_data[key].quality_issues)

-----------------------------------------------------------------------------
(* Malformed input of the aggregation *)

\* C10 as stated: a batch that lacks a field the aggregation requires is
\* skipped and the aggregation is never aborted, so no call ends in KeyError.
C10_MalformedBatchSkipped ==
    (\E i \in ValidIdx : production_batches[i].missing # {})
        => ~(pc = "raised" /\ raised = "KeyError")

====
